---------------------------- MODULE Spec2Model ----------------------------
(***************************************************************************)
(* A model of the periodontal chart component                              *)
(* (src/components/dental-periodontal-chart.tsx): the chart store and its  *)
(* single-field update, the validation engine, the keyboard navigation map *)
(* and the debounced cells that commit edits to the store.                 *)
(*                                                                         *)
(* JavaScript values are tagged records [t |-> type, v |-> payload];       *)
(* JavaScript objects are TLA+ functions from property names; strings that *)
(* the code parses, formats or slices are sequences of one-character       *)
(* strings, and the keys it builds with template literals are strings.     *)
(***************************************************************************)
EXTENDS Integers, Sequences, FiniteSets, TLC

VARIABLES
    (* ---- the PeriodontalChart component ---- *)
    lifecycle,          \* "created", then "mounted", then "unmounted"
    readOnly,           \* prop readOnly
    hasOnSubmit,        \* prop onSubmit was supplied
    initialValues,      \* prop initialValues
    chartData,          \* useState chartData
    chartRef,           \* identity of the object held in chartData
    validationErrors,   \* useMemo validationErrors of the last render
    summaryStats,       \* useMemo summaryStats of the last render
    localValue,         \* per cell: useState localValue
    debouncedValue,     \* per cell: useDebounce's debouncedValue
    debouncedChartData, \* useDebounce(chartData, 100): [ref, data]
    timers,             \* the pending setTimeout calls, oldest first
    deps,               \* dependency arrays of the last effect run
    dirty,              \* a render was committed whose effects are pending
    onChangeCalls,      \* identities of the charts passed to onChange so far
    onChangeArg,        \* the chart passed by the last onChange invocation
    onSubmitCalls,      \* arguments of the onSubmit invocations so far
    events,             \* user events so far (bounded per specification)
    (* ---- keyboard navigation ---- *)
    focus,              \* data-field-key of the focused element
    navCall,            \* the last handleKeyDown call and the target it found
    (* ---- the update transform on object identities ---- *)
    heap,               \* allocated objects, by identity
    curChart,           \* identity of the current chart object
    prevChart,          \* identity of the chart before the last update
    updCall,            \* arguments of the last handleUpdate call
    (* ---- the validation of one measurement ---- *)
    vData,              \* the measurement handed to validateToothData
    vErrors,            \* its result
    vDone               \* validateToothData has run on vData

vars == <<lifecycle, readOnly, hasOnSubmit, initialValues, chartData, chartRef,
          validationErrors, summaryStats, localValue, debouncedValue,
          debouncedChartData, timers, deps, dirty, onChangeCalls, onChangeArg,
          onSubmitCalls, events, focus, navCall, heap, curChart, prevChart,
          updCall, vData, vErrors, vDone>>

compVars == <<lifecycle, readOnly, hasOnSubmit, initialValues, chartData,
              chartRef, validationErrors, summaryStats, localValue, debouncedValue,
              debouncedChartData, timers, deps, dirty, onChangeCalls,
              onChangeArg, onSubmitCalls, events>>
navVars == <<focus, navCall>>
updVars == <<heap, curChart, prevChart, updCall>>
valVars == <<vData, vErrors, vDone>>

-----------------------------------------------------------------------------
(* JavaScript values *)

Undefined == [t |-> "undefined", v |-> 0]
Null == [t |-> "null", v |-> 0]
Num(n) == [t |-> "number", v |-> n]
Bool(b) == [t |-> "boolean", v |-> b]
Str(s) == [t |-> "string", v |-> s]
Obj(f) == [t |-> "object", v |-> f]

\* ToBoolean, as `x || y` applies it (no NaN arises: numbers are integers)
Truthy(x) ==
    CASE x.t = "number" -> x.v # 0
      [] x.t = "boolean" -> x.v
      [] x.t = "string" -> Len(x.v) > 0
      [] x.t = "object" -> TRUE
      [] OTHER -> FALSE

\* x || y
OrElse(x, y) == IF Truthy(x) THEN x ELSE y

\* obj?.[key]: undefined when obj is null or undefined or has no such key
OptGet(obj, key) ==
    IF obj.t = "object" /\ key \in DOMAIN obj.v THEN obj.v[key] ELSE Undefined

\* { ...target, ...source } for an object `target` (a function) and a value
\* `source`: spreading null or undefined copies nothing
Spread(target, source) ==
    IF source.t = "object"
    THEN [k \in DOMAIN target \cup DOMAIN source.v |->
             IF k \in DOMAIN source.v THEN source.v[k] ELSE target[k]]
    ELSE target

\* the element of a JavaScript array at a 0-based index
At(arr, i) == arr[i + 1]

\* the elements of a sequence, as a set
Range(seq) == {seq[i] : i \in 1..Len(seq)}

-----------------------------------------------------------------------------
(* The catalogue, the field list, the default measurement, the rules *)

TOOTH_GROUPS ==
    [upperRight |-> <<"18", "17", "16", "15", "14", "13", "12", "11">>,
     upperLeft  |-> <<"21", "22", "23", "24", "25", "26", "27", "28">>,
     lowerLeft  |-> <<"31", "32", "33", "34", "35", "36", "37", "38">>,
     lowerRight |-> <<"48", "47", "46", "45", "44", "43", "42", "41">>]

\* Object.values(TOOTH_GROUPS).flat(): the groups in insertion order
ALL_TEETH ==
    TOOTH_GROUPS.upperRight \o TOOTH_GROUPS.upperLeft
        \o TOOTH_GROUPS.lowerLeft \o TOOTH_GROUPS.lowerRight

\* the two surfaces, in the order the code iterates them
SURFACES == <<"buccal", "palatal">>

\* the field list of createNavigationMap
fields ==
    <<"mobility", "implant", "furcation",
      "bleeding_on_probing_distal", "bleeding_on_probing_mid",
      "bleeding_on_probing_mesial",
      "plaque_on_probing_distal", "plaque_on_probing_mid",
      "plaque_on_probing_mesial",
      "gingival_margin_distal", "gingival_margin_mid",
      "gingival_margin_mesial",
      "probing_depth_distal", "probing_depth_mid", "probing_depth_mesial",
      "notes">>

createDefaultMeasurement ==
    [present |-> Bool(TRUE),
     mobility |-> Num(0),
     implant |-> Bool(FALSE),
     furcation |-> Num(0),
     bleeding_on_probing_distal |-> Bool(FALSE),
     bleeding_on_probing_mid |-> Bool(FALSE),
     bleeding_on_probing_mesial |-> Bool(FALSE),
     plaque_on_probing_distal |-> Bool(FALSE),
     plaque_on_probing_mid |-> Bool(FALSE),
     plaque_on_probing_mesial |-> Bool(FALSE),
     gingival_margin_distal |-> Num(0),
     gingival_margin_mid |-> Num(0),
     gingival_margin_mesial |-> Num(0),
     probing_depth_distal |-> Num(0),
     probing_depth_mid |-> Num(0),
     probing_depth_mesial |-> Num(0),
     notes |-> Str(<<>>)]

\* the entries of the VALIDATION_RULES map, in insertion order
VALIDATION_RULES ==
    <<[field |-> "mobility", min |-> 0, max |-> 3, required |-> TRUE],
      [field |-> "furcation", min |-> 0, max |-> 3, required |-> TRUE],
      [field |-> "gingival_margin_distal", min |-> -10, max |-> 10,
       required |-> TRUE],
      [field |-> "gingival_margin_mid", min |-> -10, max |-> 10,
       required |-> TRUE],
      [field |-> "gingival_margin_mesial", min |-> -10, max |-> 10,
       required |-> TRUE],
      [field |-> "probing_depth_distal", min |-> 0, max |-> 15,
       required |-> TRUE],
      [field |-> "probing_depth_mid", min |-> 0, max |-> 15,
       required |-> TRUE],
      [field |-> "probing_depth_mesial", min |-> 0, max |-> 15,
       required |-> TRUE]>>

-----------------------------------------------------------------------------
(* Number <-> string conversions *)

DIGITS == <<"0", "1", "2", "3", "4", "5", "6", "7", "8", "9">>

\* the value of a digit character
DigitValue(ch) == (CHOOSE i \in 1..Len(DIGITS) : DIGITS[i] = ch) - 1

IsDigit(ch) == ch \in Range(DIGITS)

RECURSIVE NatToString(_)
NatToString(n) ==
    IF n < 10 THEN <<At(DIGITS, n)>>
    ELSE NatToString(n \div 10) \o <<At(DIGITS, n % 10)>>

\* Number.prototype.toString() of an integer
IntToString(n) == IF n < 0 THEN <<"-">> \o NatToString(-n) ELSE NatToString(n)

\* value.toString() of a number or a string
JsToString(x) == IF x.t = "number" THEN IntToString(x.v) ELSE x.v

\* the value of the longest prefix of digits of s, read after `acc`;
\* `seen` tells whether a digit was read
RECURSIVE ParseDigits(_, _, _)
ParseDigits(s, acc, seen) ==
    IF Len(s) > 0 /\ IsDigit(Head(s))
    THEN ParseDigits(Tail(s), 10 * acc + DigitValue(Head(s)), TRUE)
    ELSE [nan |-> ~seen, n |-> acc]

RECURSIVE SkipSpaces(_)
SkipSpaces(s) == IF Len(s) > 0 /\ Head(s) = " " THEN SkipSpaces(Tail(s)) ELSE s

\* Number.parseInt(s): leading blanks, an optional sign, then decimal digits
\* up to the first other character; NaN when no digit is read
ParseInt(s) ==
    LET t == SkipSpaces(s)
        neg == Len(t) > 0 /\ Head(t) = "-"
        signed == Len(t) > 0 /\ Head(t) \in {"-", "+"}
        p == ParseDigits(IF signed THEN Tail(t) ELSE t, 0, FALSE)
    IN  [nan |-> p.nan, n |-> IF neg THEN -p.n ELSE p.n]

\* Number.parseInt(s) || 0
ParseIntOrZero(s) == LET p == ParseInt(s) IN IF p.nan THEN 0 ELSE p.n

Max2(a, b) == IF a >= b THEN a ELSE b
Min2(a, b) == IF a <= b THEN a ELSE b

-----------------------------------------------------------------------------
(* The chart: its construction and its single-field update *)

\* obj[key] = val on a copy of obj
Assign(obj, key, val) ==
    [k \in DOMAIN obj \cup {key} |-> IF k = key THEN val ELSE obj[k]]

\* chartData[tooth]?.[surface]
ChartGet(chart, tooth, surface) ==
    IF tooth \in DOMAIN chart /\ surface \in DOMAIN chart[tooth]
    THEN Obj(chart[tooth][surface])
    ELSE Undefined

\* a variant of the initializer that spreads the default over the override
InitChart_defaultLast(iv) ==
    [tooth \in Range(ALL_TEETH) |->
        [buccal |-> createDefaultMeasurement,
         palatal |-> createDefaultMeasurement]]

\* the useState initializer of chartData
InitChart(iv) ==
    [tooth \in Range(ALL_TEETH) |->
        [buccal |-> Spread(createDefaultMeasurement,
                           OptGet(OptGet(Obj(iv), tooth), "buccal")),
         palatal |-> Spread(createDefaultMeasurement,
                            OptGet(OptGet(Obj(iv), tooth), "palatal"))]]

\* a variant of the updater that does not spread the previous tooth entry
handleUpdate_noToothSpread(prev, tooth, surface, field, value) ==
    LET old == IF tooth \in DOMAIN prev THEN prev[tooth] ELSE <<>>
        oldSurface == IF surface \in DOMAIN old THEN old[surface] ELSE <<>>
    IN  Assign(prev, tooth, (surface :> Assign(oldSurface, field, value)))

\* the updater that handleUpdate hands to setChartData, applied to prev
handleUpdate(prev, tooth, surface, field, value) ==
    LET created ==
            IF tooth \notin DOMAIN prev
            THEN Assign(prev, tooth, [buccal |-> createDefaultMeasurement,
                                      palatal |-> createDefaultMeasurement])
            ELSE prev
        old == created[tooth]
        oldSurface == IF surface \in DOMAIN old THEN old[surface] ELSE <<>>
    IN  Assign(created, tooth,
               Assign(old, surface, Assign(oldSurface, field, value)))

-----------------------------------------------------------------------------
(* The same update on object identities: the heap is the sequence of the   *)
(* objects allocated so far, an identity is an index into it, and a chart  *)
(* or tooth object holds references to its entries                         *)

Ref(id) == [t |-> "ref", v |-> id]

\* the heap after the useState initializer: for the i-th tooth its buccal
\* measurement, its palatal measurement and its entry, then the chart object
InitHeap(iv) ==
    LET chart == InitChart(iv)
        n == Len(ALL_TEETH)
    IN  [id \in 1..(3 * n + 1) |->
            IF id = 3 * n + 1
            THEN [tooth \in Range(ALL_TEETH) |->
                     Ref(3 * (CHOOSE i \in 1..n : ALL_TEETH[i] = tooth))]
            ELSE LET tooth == ALL_TEETH[(id + 2) \div 3]
                 IN  CASE id % 3 = 1 -> chart[tooth].buccal
                       [] id % 3 = 2 -> chart[tooth].palatal
                       [] OTHER -> [buccal |-> Ref(id - 2),
                                    palatal |-> Ref(id - 1)]]

\* the identity of the chart object that InitHeap allocates
InitChartRef == 3 * Len(ALL_TEETH) + 1

\* the chart value that the chart object `chart` of the heap h holds
Deref(h, chart) ==
    [tooth \in DOMAIN h[chart] |->
        [surface \in DOMAIN h[h[chart][tooth].v] |->
            h[h[h[chart][tooth].v][surface].v]]]

\* a variant of the updater that, for a tooth without an entry, creates the
\* entry and leaves the write to a later call
handleUpdateRef_createOnly(h, prev, tooth, surface, field, value) ==
    LET h1 == Append(h, h[prev])
        newData == Len(h1)
        fresh == Len(h1) + 3
        old == h1[h1[newData][tooth].v]
        oldSurface == IF surface \in DOMAIN old THEN h1[old[surface].v]
                      ELSE <<>>
        h3 == Append(h1, Assign(oldSurface, field, value))
        h4 == Append(h3, Assign(old, surface, Ref(Len(h3))))
    IN  IF tooth \notin DOMAIN h1[newData]
        THEN [heap |-> [h1 \o <<createDefaultMeasurement,
                                 createDefaultMeasurement,
                                 [buccal |-> Ref(Len(h1) + 1),
                                  palatal |-> Ref(Len(h1) + 2)]>>
                           EXCEPT ![newData] = Assign(@, tooth, Ref(fresh))],
              ref |-> newData]
        ELSE [heap |-> [h4 EXCEPT ![newData] = Assign(@, tooth, Ref(Len(h4)))],
              ref |-> newData]

\* a variant of the updater that writes the field into the measurement
\* object of the previous chart
handleUpdateRef_inPlace(h, prev, tooth, surface, field, value) ==
    LET h1 == Append(h, h[prev])
        m == h[h[prev][tooth].v][surface].v
    IN  IF tooth \in DOMAIN h[prev]
        THEN [heap |-> [h1 EXCEPT ![m] = Assign(@, field, value)],
              ref |-> Len(h1)]
        ELSE [heap |-> h1, ref |-> Len(h1)]

\* a variant of the updater that creates no defaults for a tooth without an
\* entry: the new entry holds the targeted surface with the targeted field
handleUpdateRef_noDefaults(h, prev, tooth, surface, field, value) ==
    LET h1 == Append(h, h[prev])
        newData == Len(h1)
        old == IF tooth \in DOMAIN h1[newData] THEN h1[h1[newData][tooth].v]
               ELSE <<>>
        oldSurface == IF surface \in DOMAIN old THEN h1[old[surface].v]
                      ELSE <<>>
        h3 == Append(h1, Assign(oldSurface, field, value))
        h4 == Append(h3, Assign(old, surface, Ref(Len(h3))))
    IN  [heap |-> [h4 EXCEPT ![newData] = Assign(@, tooth, Ref(Len(h4)))],
         ref |-> newData]

\* the updater that handleUpdate hands to setChartData, applied to the chart
\* object prev of the heap h: the heap after it, and the object it returns
handleUpdateRef(h, prev, tooth, surface, field, value) ==
    LET h1 == Append(h, h[prev])
        newData == Len(h1)
        fresh == Len(h1) + 3
        h2 == IF tooth \notin DOMAIN h1[newData]
              THEN [h1 \o <<createDefaultMeasurement, createDefaultMeasurement,
                            [buccal |-> Ref(Len(h1) + 1),
                             palatal |-> Ref(Len(h1) + 2)]>>
                       EXCEPT ![newData] = Assign(@, tooth, Ref(fresh))]
              ELSE h1
        old == h2[h2[newData][tooth].v]
        oldSurface == IF surface \in DOMAIN old THEN h2[old[surface].v]
                      ELSE <<>>
        h3 == Append(h2, Assign(oldSurface, field, value))
        h4 == Append(h3, Assign(old, surface, Ref(Len(h3))))
    IN  [heap |-> [h4 EXCEPT ![newData] = Assign(@, tooth, Ref(Len(h4)))],
         ref |-> newData]

-----------------------------------------------------------------------------
(* The validation engine *)

\* a variant of the loop whose range test includes the ends of the range
RECURSIVE ValidateFrom_inclusive(_, _, _)
ValidateFrom_inclusive(data, i, errors) ==
    IF i >= Len(VALIDATION_RULES) THEN errors
    ELSE LET rule == At(VALIDATION_RULES, i)
             value == IF rule.field \in DOMAIN data THEN data[rule.field]
                      ELSE Undefined
             req == IF rule.required /\ value.t \in {"undefined", "null"}
                    THEN {rule.field \o "_required"} ELSE {}
             rng == IF value.t = "number"
                       /\ (value.v <= rule.min \/ value.v >= rule.max)
                    THEN {rule.field \o "_range"} ELSE {}
         IN  ValidateFrom_inclusive(data, i + 1, errors \cup req \cup rng)

\* the loop of validateToothData from rule i (0-based) on
RECURSIVE ValidateFrom(_, _, _)
ValidateFrom(data, i, errors) ==
    IF i >= Len(VALIDATION_RULES) THEN errors
    ELSE LET rule == At(VALIDATION_RULES, i)
             value == IF rule.field \in DOMAIN data THEN data[rule.field]
                      ELSE Undefined
             req == IF rule.required /\ value.t \in {"undefined", "null"}
                    THEN {rule.field \o "_required"} ELSE {}
             rng == IF value.t = "number"
                       /\ (value.v < rule.min \/ value.v > rule.max)
                    THEN {rule.field \o "_range"} ELSE {}
         IN  ValidateFrom(data, i + 1, errors \cup req \cup rng)

validateToothData(data) == ValidateFrom(data, 0, {})

\* a variant of the useMemo that sets an entry for every measurement
ValidationErrorsOf_keepsEmpty(chart) ==
    [k \in {At(ALL_TEETH, ti) \o "-" \o At(SURFACES, si) :
                ti \in 0..(Len(ALL_TEETH) - 1),
                si \in 0..(Len(SURFACES) - 1)} |->
        LET h == CHOOSE c \in Range(ALL_TEETH) \X Range(SURFACES) :
                     c[1] \o "-" \o c[2] = k
        IN  validateToothData(chart[h[1]][h[2]])]

\* the useMemo of validationErrors: a Map from "tooth-surface" to the
\* non-empty error set of that measurement
ValidationErrorsOf(chart) ==
    LET hits == {h \in {[key |-> At(ALL_TEETH, ti) \o "-" \o At(SURFACES, si),
                         data |-> ChartGet(chart, At(ALL_TEETH, ti),
                                           At(SURFACES, si))] :
                            ti \in 0..(Len(ALL_TEETH) - 1),
                            si \in 0..(Len(SURFACES) - 1)} :
                    /\ Truthy(h.data)
                    /\ Cardinality(validateToothData(h.data.v)) > 0}
    IN  [k \in {h.key : h \in hits} |->
            validateToothData((CHOOSE h \in hits : h.key = k).data.v)]

\* a variant of isDataValid that holds of every mapping
IsDataValid_always(errors) == Cardinality(DOMAIN errors) >= 0

\* the useMemo of isDataValid
IsDataValid(errors) == Cardinality(DOMAIN errors) = 0

-----------------------------------------------------------------------------
(* The summary statistics *)

\* the sites in the order summaryStats visits them: ALL_TEETH.forEach, then
\* buccal and palatal of each tooth
ALL_SITES ==
    [i \in 1..(2 * Len(ALL_TEETH)) |->
        <<ALL_TEETH[(i + 1) \div 2],
          IF i % 2 = 1 THEN "buccal" ELSE "palatal">>]

\* the sites whose data is there
SitesOf(chart) ==
    SelectSeq(ALL_SITES,
              LAMBDA site : Truthy(ChartGet(chart, site[1], site[2])))

DEPTH_FIELDS ==
    <<"probing_depth_distal", "probing_depth_mid", "probing_depth_mesial">>
MARGIN_FIELDS ==
    <<"gingival_margin_distal", "gingival_margin_mid", "gingival_margin_mesial">>
PLAQUE_FIELDS ==
    <<"plaque_on_probing_distal", "plaque_on_probing_mid",
      "plaque_on_probing_mesial">>
BLEEDING_FIELDS ==
    <<"bleeding_on_probing_distal", "bleeding_on_probing_mid",
      "bleeding_on_probing_mesial">>

\* data.field of a measurement
FieldOf(data, field) == IF field \in DOMAIN data THEN data[field] ELSE Undefined

\* stats.depths / stats.margins after the loop over the sites: the values
\* pushed for the fields of a list, site after site
Pushed(chart, sites, flds) ==
    [i \in 1..(Len(flds) * Len(sites)) |->
        LET site == sites[((i - 1) \div Len(flds)) + 1]
        IN  FieldOf(chart[site[1]][site[2]], flds[((i - 1) % Len(flds)) + 1])]

\* what a + b adds for a pushed value b, which is a number, a boolean, null
\* or undefined: null adds 0, false 0 and true 1 (undefined makes the sum
\* NaN)
Addend(value) ==
    CASE value.t = "number" -> value.v
      [] value.t = "boolean" /\ value.v -> 1
      [] OTHER -> 0

\* reduce((a, b) => a + b, 0) over values[lo..hi]
RECURSIVE SumRange(_, _, _)
SumRange(values, lo, hi) ==
    IF lo > hi THEN 0
    ELSE IF lo = hi THEN Addend(values[lo])
    ELSE SumRange(values, lo, (lo + hi) \div 2)
         + SumRange(values, ((lo + hi) \div 2) + 1, hi)

\* the sum of the values is NaN
SumIsNaN(values) == \E i \in 1..Len(values) : values[i].t = "undefined"

\* 10^k
RECURSIVE Pow10(_)
Pow10(k) == IF k = 0 THEN 1 ELSE 10 * Pow10(k - 1)

\* the digits of n, at least k of them
RECURSIVE PadDigits(_, _)
PadDigits(n, k) ==
    IF k <= 1 THEN NatToString(n)
    ELSE PadDigits(n \div 10, k - 1) \o <<At(DIGITS, n % 10)>>

\* (num / den).toFixed(digits) for integers num and den > 0: the sign when
\* the quotient is below 0, then the magnitude rounded to the nearest
\* multiple of 10^-digits, the larger one of two that are as near
ToFixed(num, den, digits) ==
    LET magnitude == IF num < 0 THEN -num ELSE num
        n == (2 * magnitude * Pow10(digits) + den) \div (2 * den)
        whole == NatToString(n \div Pow10(digits))
        sign == IF num < 0 THEN <<"-">> ELSE <<>>
    IN  IF digits = 0 THEN sign \o whole
        ELSE sign \o whole \o <<".">> \o PadDigits(n % Pow10(digits), digits)

\* values.reduce(...) / values.length, to one decimal
MeanOf(values) ==
    IF Len(values) > 0
    THEN IF SumIsNaN(values) THEN <<"N", "a", "N">>
         ELSE ToFixed(SumRange(values, 1, Len(values)), Len(values), 1)
    ELSE ToFixed(0, 1, 1)

\* a variant of the count that adds one for every flag that is set
FlagCount_perFlag(chart, sites, flags) ==
    Cardinality({<<i, k>> \in (1..Len(sites)) \X (1..Len(flags)) :
        Truthy(FieldOf(chart[sites[i][1]][sites[i][2]], flags[k]))})

\* stats.plaqueCount / stats.bleedingCount after the loop: the sites with
\* one of the flags set
FlagCount(chart, sites, flags) ==
    Cardinality({i \in 1..Len(sites) :
        \E k \in 1..Len(flags) :
            Truthy(FieldOf(chart[sites[i][1]][sites[i][2]], flags[k]))})

\* ((count / totalSites) * 100).toFixed(0), "0" without sites
PercentOf(count, totalSites) ==
    IF totalSites > 0 THEN ToFixed(count * 100, totalSites, 0) ELSE <<"0">>

\* a variant of the statistics whose attachment level adds the probing
\* depths to the gingival margins
StatsOf_clinical(depths, margins, plaqueCount, bleedingCount, totalSites) ==
    [meanDepth |-> MeanOf(depths),
     meanMargin |-> ToFixed(SumRange(margins, 1, Len(margins))
                            + SumRange(depths, 1, Len(depths)),
                            Len(margins), 1),
     plaquePercent |-> PercentOf(plaqueCount, totalSites),
     bleedingPercent |-> PercentOf(bleedingCount, totalSites)]

\* what the useMemo of summaryStats returns for the stats its loop filled
StatsOf(depths, margins, plaqueCount, bleedingCount, totalSites) ==
    [meanDepth |-> MeanOf(depths),
     meanMargin |-> MeanOf(margins),
     plaquePercent |-> PercentOf(plaqueCount, totalSites),
     bleedingPercent |-> PercentOf(bleedingCount, totalSites)]

\* the loop of summaryStats over the sites that are there: it fills
\* stats.depths and stats.margins and counts plaqueCount, bleedingCount and
\* totalSites, and the statistics are taken from the stats it filled
SummarizeSites(chart, sites) ==
    CHOOSE result \in
        {StatsOf(depths, margins, plaqueCount, bleedingCount, Len(sites)) :
            depths \in {Pushed(chart, sites, DEPTH_FIELDS)},
            margins \in {Pushed(chart, sites, MARGIN_FIELDS)},
            plaqueCount \in {FlagCount(chart, sites, PLAQUE_FIELDS)},
            bleedingCount \in {FlagCount(chart, sites, BLEEDING_FIELDS)}} :
        TRUE

\* the useMemo of summaryStats
SummaryStatsOf(chart) ==
    CHOOSE result \in {SummarizeSites(chart, sites) :
                           sites \in {SitesOf(chart)}} : TRUE

-----
(* The navigation map *)

CellKey(tooth, surface, field) == tooth \o "-" \o surface \o "-" \o field

\* a variant of the entry that stops at the first and last tooth and field
NavEntry_noWrap(toothIndex, surface, fieldIndex) ==
    LET tooth == At(ALL_TEETH, toothIndex)
        field == At(fields, fieldIndex)
        nextToothIndex == Min2(toothIndex + 1, Len(ALL_TEETH) - 1)
        prevToothIndex == Max2(toothIndex - 1, 0)
        nextFieldIndex == Min2(fieldIndex + 1, Len(fields) - 1)
        prevFieldIndex == Max2(fieldIndex - 1, 0)
    IN  [key |-> CellKey(tooth, surface, field),
         val |-> [next |-> CellKey(At(ALL_TEETH, nextToothIndex), surface,
                                   field),
                  prev |-> CellKey(At(ALL_TEETH, prevToothIndex), surface,
                                   field),
                  up |-> CellKey(tooth, surface, At(fields, prevFieldIndex)),
                  down |-> CellKey(tooth, surface,
                                   At(fields, nextFieldIndex))]]

\* a variant of the entry whose move down from the last field goes on to the
\* first field of the other surface
NavEntry_acrossSurfaces(toothIndex, surface, fieldIndex) ==
    LET tooth == At(ALL_TEETH, toothIndex)
        field == At(fields, fieldIndex)
        nextToothIndex == (toothIndex + 1) % Len(ALL_TEETH)
        prevToothIndex == (toothIndex + Len(ALL_TEETH) - 1) % Len(ALL_TEETH)
        nextFieldIndex == (fieldIndex + 1) % Len(fields)
        prevFieldIndex == (fieldIndex + Len(fields) - 1) % Len(fields)
        other == IF surface = "buccal" THEN "palatal" ELSE "buccal"
    IN  [key |-> CellKey(tooth, surface, field),
         val |-> [next |-> CellKey(At(ALL_TEETH, nextToothIndex), surface,
                                   field),
                  prev |-> CellKey(At(ALL_TEETH, prevToothIndex), surface,
                                   field),
                  up |-> CellKey(tooth, surface, At(fields, prevFieldIndex)),
                  down |-> CellKey(tooth,
                                   IF nextFieldIndex = 0 THEN other
                                   ELSE surface,
                                   At(fields, nextFieldIndex))]]

\* a variant of the entry whose previous indices are (index - 1) % length,
\* which is -1 at index 0 in JavaScript: the tooth and the field at -1 are
\* undefined
NavEntry_jsModulo(toothIndex, surface, fieldIndex) ==
    LET tooth == At(ALL_TEETH, toothIndex)
        field == At(fields, fieldIndex)
        nextToothIndex == (toothIndex + 1) % Len(ALL_TEETH)
        prevTooth == IF toothIndex = 0 THEN "undefined"
                     ELSE At(ALL_TEETH, toothIndex - 1)
        nextFieldIndex == (fieldIndex + 1) % Len(fields)
        prevField == IF fieldIndex = 0 THEN "undefined"
                     ELSE At(fields, fieldIndex - 1)
    IN  [key |-> CellKey(tooth, surface, field),
         val |-> [next |-> CellKey(At(ALL_TEETH, nextToothIndex), surface,
                                   field),
                  prev |-> CellKey(prevTooth, surface, field),
                  up |-> CellKey(tooth, surface, prevField),
                  down |-> CellKey(tooth, surface,
                                   At(fields, nextFieldIndex))]]

\* the entry that createNavigationMap sets for one (tooth, surface, field)
NavEntry(toothIndex, surface, fieldIndex) ==
    LET tooth == At(ALL_TEETH, toothIndex)
        field == At(fields, fieldIndex)
        nextToothIndex == (toothIndex + 1) % Len(ALL_TEETH)
        prevToothIndex == IF toothIndex = 0 THEN Len(ALL_TEETH) - 1
                          ELSE toothIndex - 1
        nextFieldIndex == (fieldIndex + 1) % Len(fields)
        prevFieldIndex == IF fieldIndex = 0 THEN Len(fields) - 1
                          ELSE fieldIndex - 1
    IN  [key |-> CellKey(tooth, surface, field),
         val |-> [next |-> CellKey(At(ALL_TEETH, nextToothIndex), surface,
                                   field),
                  prev |-> CellKey(At(ALL_TEETH, prevToothIndex), surface,
                                   field),
                  up |-> CellKey(tooth, surface, At(fields, prevFieldIndex)),
                  down |-> CellKey(tooth, surface,
                                   At(fields, nextFieldIndex))]]

createNavigationMap ==
    LET entries == {NavEntry(ti, At(SURFACES, si), fi) :
                        ti \in 0..(Len(ALL_TEETH) - 1),
                        si \in 0..(Len(SURFACES) - 1),
                        fi \in 0..(Len(fields) - 1)}
    IN  [k \in {e.key : e \in entries} |->
            (CHOOSE e \in entries : e.key = k).val]

NAVIGATION_MAP == createNavigationMap

\* no target: handleKeyDown returned before resolving one
NoTarget == [found |-> FALSE, key |-> ""]

\* a variant of the lookup whose switch falls back to the next cell
NavTarget_defaultNext(currentKey, direction) ==
    IF currentKey \notin DOMAIN NAVIGATION_MAP
    THEN [found |-> TRUE, key |-> currentKey]
    ELSE LET navigation == NAVIGATION_MAP[currentKey]
         IN  CASE direction = "prev" -> [found |-> TRUE, key |-> navigation.prev]
               [] direction = "up" -> [found |-> TRUE, key |-> navigation.up]
               [] direction = "down" -> [found |-> TRUE, key |-> navigation.down]
               [] OTHER -> [found |-> TRUE, key |-> navigation.next]

\* the targetKey that handleKeyDown resolves
NavTarget(currentKey, direction) ==
    IF currentKey \notin DOMAIN NAVIGATION_MAP THEN NoTarget
    ELSE LET navigation == NAVIGATION_MAP[currentKey]
         IN  CASE direction = "next" -> [found |-> TRUE, key |-> navigation.next]
               [] direction = "prev" -> [found |-> TRUE, key |-> navigation.prev]
               [] direction = "up" -> [found |-> TRUE, key |-> navigation.up]
               [] direction = "down" -> [found |-> TRUE, key |-> navigation.down]
               [] OTHER -> NoTarget

-----------------------------------------------------------------------------
(* The rendered grid *)

\* the fields that ToothSection renders as CompactCheckbox
CHECKBOX_FIELDS ==
    {"implant", "bleeding_on_probing_distal", "bleeding_on_probing_mid",
     "bleeding_on_probing_mesial", "plaque_on_probing_distal",
     "plaque_on_probing_mid", "plaque_on_probing_mesial"}

\* the fields that ToothSection renders as CompactNumberInput
NUMBER_FIELDS ==
    {"mobility", "furcation", "gingival_margin_distal", "gingival_margin_mid",
     "gingival_margin_mesial", "probing_depth_distal", "probing_depth_mid",
     "probing_depth_mesial"}

\* the field that ToothSection renders as CompactTextInput
TEXT_FIELDS == {"notes"}

\* every cell of the eight ToothSections that PeriodontalChart renders: each
\* quadrant once per surface
RenderedCells ==
    {<<tooth, surface, field>> :
        tooth \in Range(ALL_TEETH), surface \in Range(SURFACES),
        field \in CHECKBOX_FIELDS \cup NUMBER_FIELDS \cup TEXT_FIELDS}

\* the data-field-key of a rendered cell
FieldKey(c) == CellKey(c[1], c[2], c[3])

\* the rendered cell that carries a data-field-key
CellOfKey == [k \in {FieldKey(c) : c \in RenderedCells} |->
                 CHOOSE c \in RenderedCells : FieldKey(c) = k]

\* element.focus(): a disabled checkbox (readOnly) does not take the focus
Focusable(key, ro) ==
    /\ key \in DOMAIN CellOfKey
    /\ ~(ro /\ CellOfKey[key][3] \in CHECKBOX_FIELDS)

\* the direction a cell's onKeyDown handler passes to handleKeyDown for a
\* key press, "" when the handler does not call it
KeyDirection(field, key, shiftKey) ==
    IF field \in TEXT_FIELDS
    THEN IF key = "Tab" THEN (IF shiftKey THEN "prev" ELSE "next") ELSE ""
    ELSE CASE key \in {"ArrowRight", "Tab"} ->
                  IF shiftKey THEN "" ELSE "next"
           [] key = "ArrowLeft" -> "prev"
           [] key = "ArrowUp" -> "up"
           [] key \in {"ArrowDown", "Enter"} -> "down"
           [] OTHER -> ""

-----------------------------------------------------------------------------
(* The cells and their debounced commit *)

NUMBER_DELAY == 150
TEXT_DELAY == 300
CHANGE_DELAY == 100
NOTES_MAX_LENGTH == 100

\* the min prop ToothSection passes to a CompactNumberInput (default 0)
CellMin(field) ==
    IF field \in {"gingival_margin_distal", "gingival_margin_mid",
                  "gingival_margin_mesial"}
    THEN -10 ELSE 0

\* a variant in which the probing depth cells allow up to 20
CellMax_wide(field) ==
    CASE field \in {"mobility", "furcation"} -> 3
      [] field \in {"gingival_margin_distal", "gingival_margin_mid",
                    "gingival_margin_mesial"} -> 10
      [] OTHER -> 20

\* the max prop ToothSection passes to a CompactNumberInput
CellMax(field) ==
    CASE field \in {"mobility", "furcation"} -> 3
      [] field \in {"gingival_margin_distal", "gingival_margin_mid",
                    "gingival_margin_mesial"} -> 10
      [] OTHER -> 15

\* the value / checked prop ToothSection passes to the cell of a field:
\* chartData[tooth]?.[surfaceType]?.field || fallback
ValueProp(chart, c) ==
    OrElse(OptGet(ChartGet(chart, c[1], c[2]), c[3]),
           IF c[3] \in NUMBER_FIELDS THEN Num(0)
           ELSE IF c[3] \in TEXT_FIELDS THEN Str(<<>>)
           ELSE Bool(FALSE))

\* str.slice(0, n)
Slice(str, n) == SubSeq(str, 1, Min2(n, Len(str)))

\* a variant of the commit effect that does not clamp
NumberCommit_noClamp(debounced, value, min, max) ==
    LET numValue == ParseIntOrZero(debounced)
    IN  [call |-> Num(numValue) # value, value |-> Num(numValue)]

\* the commit effect of CompactNumberInput: whether it calls onChange, and
\* with what
NumberCommit(debounced, value, min, max) ==
    LET numValue == ParseIntOrZero(debounced)
        clampedValue == Max2(min, Min2(max, numValue))
    IN  [call |-> Num(clampedValue) # value, value |-> Num(clampedValue)]

\* the commit effect of CompactTextInput
TextCommit(debounced, value) ==
    [call |-> Str(debounced) # value,
     value |-> Str(Slice(debounced, NOTES_MAX_LENGTH))]

\* the commit effect of the cell c for a debounced text and a value prop
CellCommit(c, debounced, value) ==
    IF c[3] \in NUMBER_FIELDS
    THEN NumberCommit(debounced, value, CellMin(c[3]), CellMax(c[3]))
    ELSE TextCommit(debounced, value)

\* a variant in which the notes cell debounces like a number cell
CellDelay_allShort(c) == NUMBER_DELAY

\* the delay a cell passes to useDebounce
CellDelay(c) == IF c[3] \in NUMBER_FIELDS THEN NUMBER_DELAY ELSE TEXT_DELAY

\* the largest step of time at which every delay is a whole number of steps
RECURSIVE GCD(_, _)
GCD(a, b) == IF b = 0 THEN a ELSE GCD(b, a % b)
Quantum == GCD(GCD(CHANGE_DELAY, NUMBER_DELAY), TEXT_DELAY)

-----------------------------------------------------------------------------
(* The bounds of the model and the inputs drawn within them *)

\* user events (keystrokes, toggles, submit clicks) in one run
MaxEvents == 1

\* the cells the user edits and the initial values override; every other
\* cell keeps its default value, its text "0" or "" and a timer that sets the
\* debounced text to what it already is
TrackedInputs ==
    <<(<<"18", "buccal", "probing_depth_distal">>),
      (<<"41", "palatal", "gingival_margin_mid">>),
      (<<"18", "palatal", "notes">>)>>

TrackedCheckboxes == {<<"18", "buccal", "implant">>}

InputCells == Range(TrackedInputs)

\* the texts typed into a number cell: integers above and below the ranges,
\* and the empty text
NumberTexts == {IntToString(v) : v \in {-11, 20}} \cup {<<>>}

\* the texts typed into a notes cell
NoteTexts == {<<"a">>, <<"a", "b">>}

\* { tooth: { surface: { field: value } } }
Override(tooth, surface, field, value) ==
    (tooth :> Obj(surface :> Obj(field :> value)))

\* { ...a, ...b } of two initialValues objects with different teeth
Both(a, b) == a @@ b

\* a note of n characters, no two neighbours alike
LongNote(n) == [k \in 1..n |-> IF k % 2 = 1 THEN "n" ELSE "o"]

\* the initialValues props of the component model: none; an out-of-range
\* number on a tooth whose palatal override is null, with an entry for a tooth
\* outside the catalogue; an absent required number with an in-range number;
\* a note of one character more than the cap
MountInputs ==
    {<<>>,
     Both("18" :> Obj(("buccal" :> Obj("probing_depth_distal" :> Num(20)))
                      @@ ("palatal" :> Null)),
          Override("99", "buccal", "mobility", Num(1))),
     Both(Override("18", "buccal", "mobility", Undefined),
          Override("41", "palatal", "gingival_margin_mid", Num(-3))),
     Override("18", "palatal", "notes", Str(LongNote(NOTES_MAX_LENGTH + 1)))}

-----------------------------------------------------------------------------
(* The PeriodontalChart component: renders, effects, events, timers *)

\* the owner of the timer of useDebounce(chartData, 100)
CHART == <<"chart">>

\* no effect has run yet
NoDeps == [ran |-> FALSE, local |-> <<>>, value |-> <<>>, chart |-> 0,
           debChart |-> 0]

\* the component before its first render, with its props
Created(iv, ro, sub) ==
    /\ lifecycle = "created"
    /\ readOnly = ro
    /\ hasOnSubmit = sub
    /\ initialValues = iv
    /\ chartData = <<>>
    /\ chartRef = 0
    /\ validationErrors = <<>>
    /\ summaryStats = <<>>
    /\ localValue = <<>>
    /\ debouncedValue = <<>>
    /\ debouncedChartData = [ref |-> 0, data |-> <<>>]
    /\ timers = <<>>
    /\ deps = NoDeps
    /\ dirty = FALSE
    /\ onChangeCalls = <<>>
    /\ onChangeArg = <<>>
    /\ onSubmitCalls = <<>>
    /\ events = 0

\* the first render: every useState initializer runs; the effects are pending
Mount ==
    /\ lifecycle = "created"
    /\ lifecycle' = "mounted"
    /\ chartData' = InitChart(initialValues)
    /\ chartRef' = 0
    /\ validationErrors' = ValidationErrorsOf(chartData')
    /\ summaryStats' = SummaryStatsOf(chartData')
    /\ localValue' = [c \in InputCells |-> JsToString(ValueProp(chartData', c))]
    /\ debouncedValue' = localValue'
    /\ debouncedChartData' = [ref |-> 0, data |-> chartData']
    /\ dirty' = TRUE
    /\ UNCHANGED <<readOnly, hasOnSubmit, initialValues, timers, deps,
                   onChangeCalls, onChangeArg, onSubmitCalls, events>>
    /\ UNCHANGED <<navVars, updVars, valVars>>

\* clearTimeout of the timer an owner holds
ClearTimer(ts, owner) == SelectSeq(ts, LAMBDA t : t.owner # owner)

\* a variant of useDebounce whose effect has no cleanup
RestartTimer_noCleanup(ts, owner, delay, value) ==
    Append(ts, [owner |-> owner, delay |-> delay, remaining |-> delay,
                value |-> value])

\* a variant of useDebounce that throttles: while a timer of the owner is
\* pending, the effect leaves it alone, with the value it was set for
RestartTimer_throttle(ts, owner, delay, value) ==
    IF \E i \in 1..Len(ts) : ts[i].owner = owner THEN ts
    ELSE Append(ts, [owner |-> owner, delay |-> delay, remaining |-> delay,
                     value |-> value])

\* the cleanup and the body of a useDebounce effect: clearTimeout of the
\* timer of the previous run, then setTimeout
RestartTimer(ts, owner, delay, value) ==
    Append(ClearTimer(ts, owner),
           [owner |-> owner, delay |-> delay, remaining |-> delay,
            value |-> value])

\* a variant in which handleUpdate spreads the chart of the render instead
\* of the one the previous update returned
RECURSIVE ApplyCommits_stale(_, _)
ApplyCommits_stale(chart, i) ==
    IF i > Len(TrackedInputs) THEN chart
    ELSE LET c == TrackedInputs[i]
             commit == CellCommit(c, debouncedValue[c], ValueProp(chartData, c))
         IN  ApplyCommits_stale(IF commit.call
                                THEN handleUpdate(chartData, c[1], c[2], c[3],
                                                  commit.value)
                                ELSE chart,
                                i + 1)

\* the chart after the commit effects of the cells from the i-th on have
\* called handleUpdate, each on the chart the previous one returned
RECURSIVE ApplyCommits(_, _)
ApplyCommits(chart, i) ==
    IF i > Len(TrackedInputs) THEN chart
    ELSE LET c == TrackedInputs[i]
             commit == CellCommit(c, debouncedValue[c], ValueProp(chartData, c))
         IN  ApplyCommits(IF commit.call
                          THEN handleUpdate(chart, c[1], c[2], c[3], commit.value)
                          ELSE chart,
                          i + 1)

\* the timers after the useDebounce effects of the cells from the i-th on,
\* then of the chart, have run
RECURSIVE RestartTimers(_, _)
RestartTimers(ts, i) ==
    IF i > Len(TrackedInputs)
    THEN IF ~deps.ran \/ chartRef # deps.chart
         THEN RestartTimer(ts, CHART, CHANGE_DELAY,
                           [ref |-> chartRef, data |-> chartData])
         ELSE ts
    ELSE LET c == TrackedInputs[i]
         IN  RestartTimers(IF ~deps.ran \/ localValue[c] # deps.local[c]
                           THEN RestartTimer(ts, c, CellDelay(c),
                                             [text |-> localValue[c]])
                           ELSE ts,
                           i + 1)

\* the effects of the committed render run, each on the values that render
\* saw, and the state they set is rendered
FlushEffects ==
    /\ lifecycle = "mounted"
    /\ dirty
    /\ LET value(c) == ValueProp(chartData, c)
           commits == {c \in InputCells :
                          CellCommit(c, debouncedValue[c], value(c)).call}
           notify == ~deps.ran \/ debouncedChartData.ref # deps.debChart
       IN  /\ timers' = RestartTimers(timers, 1)
           /\ localValue' = [c \in InputCells |->
                               IF ~deps.ran \/ value(c) # deps.value[c]
                               THEN JsToString(value(c))
                               ELSE localValue[c]]
           /\ chartData' = ApplyCommits(chartData, 1)
           /\ chartRef' = chartRef + Cardinality(commits)
           /\ validationErrors' = IF commits # {}
                                  THEN ValidationErrorsOf(chartData')
                                  ELSE validationErrors
           /\ summaryStats' = IF commits # {}
                              THEN SummaryStatsOf(chartData')
                              ELSE summaryStats
           /\ onChangeCalls' = IF notify
                               THEN Append(onChangeCalls, debouncedChartData.ref)
                               ELSE onChangeCalls
           /\ onChangeArg' = IF notify THEN debouncedChartData.data
                             ELSE onChangeArg
           /\ deps' = [ran |-> TRUE, local |-> localValue,
                       value |-> [c \in InputCells |-> value(c)],
                       chart |-> chartRef, debChart |-> debouncedChartData.ref]
           /\ dirty' = (commits # {} \/ localValue' # localValue)
    /\ UNCHANGED <<lifecycle, readOnly, hasOnSubmit, initialValues,
                   debouncedValue, debouncedChartData, onSubmitCalls, events>>
    /\ UNCHANGED <<navVars, updVars, valVars>>

\* the component is mounted and no effect is pending
Idle == lifecycle = "mounted" /\ ~dirty

\* the user may act
CanAct == Idle /\ events < MaxEvents

\* the onChange of an input cell: setLocalValue(e.target.value) (a readOnly
\* input takes no text)
SetLocalValue(c, text) ==
    /\ ~readOnly
    /\ text # localValue[c]
    /\ localValue' = [localValue EXCEPT ![c] = text]
    /\ dirty' = TRUE
    /\ events' = events + 1
    /\ UNCHANGED <<lifecycle, readOnly, hasOnSubmit, initialValues, chartData,
                   chartRef, validationErrors, summaryStats, debouncedValue,
                   debouncedChartData, timers, deps, onChangeCalls,
                   onChangeArg, onSubmitCalls>>
    /\ UNCHANGED <<navVars, updVars, valVars>>

\* the user changes the text of an input cell
Type(c, text) == CanAct /\ SetLocalValue(c, text)

TypeNumber ==
    \E c \in InputCells, text \in NumberTexts :
        c[3] \in NUMBER_FIELDS /\ Type(c, text)

TypeNotes ==
    \E c \in InputCells, text \in NoteTexts :
        c[3] \in TEXT_FIELDS /\ Type(c, text)

\* a variant of the checkbox that passes its checked prop on as it is
OnCheckedChange_sameValue(c) ==
    /\ ~readOnly
    /\ chartData' = handleUpdate(chartData, c[1], c[2], c[3],
                                 Bool(Truthy(ValueProp(chartData, c))))
    /\ chartRef' = chartRef + 1
    /\ validationErrors' = ValidationErrorsOf(chartData')
    /\ summaryStats' = SummaryStatsOf(chartData')
    /\ dirty' = TRUE
    /\ events' = events + 1
    /\ UNCHANGED <<lifecycle, readOnly, hasOnSubmit, initialValues, localValue,
                   debouncedValue, debouncedChartData, timers, deps,
                   onChangeCalls, onChangeArg, onSubmitCalls>>
    /\ UNCHANGED <<navVars, updVars, valVars>>

\* the onCheckedChange of a checkbox cell, and its space key: onChange(!checked)
\* (a readOnly checkbox is disabled)
OnCheckedChange(c) ==
    /\ ~readOnly
    /\ chartData' = handleUpdate(chartData, c[1], c[2], c[3],
                                 Bool(~Truthy(ValueProp(chartData, c))))
    /\ chartRef' = chartRef + 1
    /\ validationErrors' = ValidationErrorsOf(chartData')
    /\ summaryStats' = SummaryStatsOf(chartData')
    /\ dirty' = TRUE
    /\ events' = events + 1
    /\ UNCHANGED <<lifecycle, readOnly, hasOnSubmit, initialValues, localValue,
                   debouncedValue, debouncedChartData, timers, deps,
                   onChangeCalls, onChangeArg, onSubmitCalls>>
    /\ UNCHANGED <<navVars, updVars, valVars>>

\* the user toggles a checkbox cell
Toggle(c) == CanAct /\ OnCheckedChange(c)

ToggleCheckbox == \E c \in TrackedCheckboxes : Toggle(c)

\* the user clicks the submit button, which is rendered when the chart is
\* not readOnly and has an onSubmit, and is disabled while the data is
\* invalid: handleSubmit
Submit ==
    /\ CanAct
    /\ ~readOnly /\ hasOnSubmit
    /\ onSubmitCalls' = IF IsDataValid(validationErrors)
                        THEN Append(onSubmitCalls, chartData)
                        ELSE onSubmitCalls
    /\ events' = events + 1
    /\ UNCHANGED <<lifecycle, readOnly, hasOnSubmit, initialValues, chartData,
                   chartRef, validationErrors, summaryStats, localValue,
                   debouncedValue,
                   debouncedChartData, timers, deps, dirty, onChangeCalls,
                   onChangeArg>>
    /\ UNCHANGED <<navVars, updVars, valVars>>

\* the i-th pending timer is due
Due(i) == timers[i].remaining = 0

\* time passes: as long as no pending timer is due
Tick ==
    /\ lifecycle # "created" /\ ~dirty
    /\ Len(timers) > 0
    /\ \A i \in 1..Len(timers) : ~Due(i)
    /\ timers' = [i \in 1..Len(timers) |->
                     [timers[i] EXCEPT !.remaining = @ - Quantum]]
    /\ UNCHANGED <<lifecycle, readOnly, hasOnSubmit, initialValues, chartData,
                   chartRef, validationErrors, summaryStats, localValue,
                   debouncedValue,
                   debouncedChartData, deps, dirty, onChangeCalls,
                   onChangeArg, onSubmitCalls, events>>
    /\ UNCHANGED <<navVars, updVars, valVars>>

\* the i-th pending timer may run its callback: it is due, and so is no
\* timer set before it with a delay that is not longer
MayFire(i) ==
    /\ Due(i)
    /\ \A j \in 1..(i - 1) : ~(Due(j) /\ timers[j].delay <= timers[i].delay)

\* the cells whose timers are due
DueCells == {timers[i].owner : i \in {j \in 1..Len(timers) :
                                        Due(j) /\ timers[j].owner # CHART}}

\* the text the pending timer of a cell delivers
TimerValue(c) ==
    timers[CHOOSE i \in 1..Len(timers) : timers[i].owner = c].value.text

\* the timer of a cell's useDebounce expires: setDebouncedValue(value),
\* which sets nothing once the component is unmounted. The render it asks
\* for is a task of its own: the callbacks of the other timers that are due
\* run before that render, or after it
CellTimerFire ==
    /\ lifecycle # "created" /\ ~dirty
    /\ \E i \in 1..Len(timers) :
        /\ MayFire(i)
        /\ timers[i].owner # CHART
        /\ \E fired \in {{timers[i].owner}, DueCells} :
            /\ debouncedValue' = IF lifecycle = "mounted"
                                  THEN [c \in InputCells |->
                                           IF c \in fired THEN TimerValue(c)
                                           ELSE debouncedValue[c]]
                                  ELSE debouncedValue
            /\ timers' = SelectSeq(timers, LAMBDA t : t.owner \notin fired)
    /\ dirty' = (debouncedValue' # debouncedValue)
    /\ UNCHANGED <<lifecycle, readOnly, hasOnSubmit, initialValues, chartData,
                   chartRef, validationErrors, summaryStats, localValue,
                   debouncedChartData,
                   deps, onChangeCalls, onChangeArg, onSubmitCalls, events>>
    /\ UNCHANGED <<navVars, updVars, valVars>>

\* the timer of useDebounce(chartData, 100) expires
ChartTimerFire ==
    /\ lifecycle # "created" /\ ~dirty
    /\ \E i \in 1..Len(timers) :
        /\ MayFire(i)
        /\ timers[i].owner = CHART
        /\ debouncedChartData' = IF lifecycle = "mounted" THEN timers[i].value
                                  ELSE debouncedChartData
        /\ timers' = ClearTimer(timers, CHART)
    /\ dirty' = (debouncedChartData'.ref # debouncedChartData.ref)
    /\ UNCHANGED <<lifecycle, readOnly, hasOnSubmit, initialValues, chartData,
                   chartRef, validationErrors, summaryStats, localValue,
                   debouncedValue,
                   deps, onChangeCalls, onChangeArg, onSubmitCalls, events>>
    /\ UNCHANGED <<navVars, updVars, valVars>>

\* a variant of the unmount in which no effect has a cleanup
Unmount_keepsTimers ==
    /\ lifecycle = "mounted" /\ ~dirty
    /\ lifecycle' = "unmounted"
    /\ UNCHANGED <<readOnly, hasOnSubmit, initialValues, chartData, chartRef,
                   validationErrors, summaryStats, localValue, debouncedValue,
                   debouncedChartData, timers, deps, dirty, onChangeCalls,
                   onChangeArg, onSubmitCalls, events>>
    /\ UNCHANGED <<navVars, updVars, valVars>>

\* the component unmounts: the cleanup of every useDebounce effect clears
\* its timer
Unmount ==
    /\ lifecycle = "mounted" /\ ~dirty
    /\ lifecycle' = "unmounted"
    /\ timers' = <<>>
    /\ UNCHANGED <<readOnly, hasOnSubmit, initialValues, chartData, chartRef,
                   validationErrors, summaryStats, localValue, debouncedValue,
                   debouncedChartData, deps, dirty, onChangeCalls,
                   onChangeArg, onSubmitCalls, events>>
    /\ UNCHANGED <<navVars, updVars, valVars>>

-----------------------------------------------------------------------------
(* The parts of the state a specification leaves alone *)

NoNavCall == [called |-> FALSE, key |-> "", direction |-> "",
              target |-> NoTarget, from |-> ""]
NoUpdCall == [count |-> 0, tooth |-> "", surface |-> "", field |-> "",
              value |-> Undefined]

NavIdle == focus = "" /\ navCall = NoNavCall
UpdIdle == heap = <<>> /\ curChart = 0 /\ prevChart = 0 /\ updCall = NoUpdCall
ValIdle == vData = <<>> /\ vErrors = {} /\ vDone = FALSE

-----------------------------------------------------------------------------
(* The component from creation to unmount *)

Init ==
    /\ \E iv \in MountInputs, ro \in BOOLEAN, sub \in BOOLEAN :
           (ro => sub) /\ Created(iv, ro, sub)
    /\ NavIdle /\ UpdIdle /\ ValIdle

Next ==
    \/ Mount
    \/ FlushEffects
    \/ TypeNumber
    \/ TypeNotes
    \/ ToggleCheckbox
    \/ Submit
    \/ Tick
    \/ CellTimerFire
    \/ ChartTimerFire
    \/ Unmount

Spec == Init /\ [][Next]_vars

-----------------------------------------------------------------------------
(* Properties of the chart store *)

\* the 32-entry catalogue, as the specification lists it
Catalogue ==
    {"18", "17", "16", "15", "14", "13", "12", "11",
     "21", "22", "23", "24", "25", "26", "27", "28",
     "31", "32", "33", "34", "35", "36", "37", "38",
     "48", "47", "46", "45", "44", "43", "42", "41"}

\* the 17 fields of a Measurement (src/types/dental-chart.ts)
MeasurementFields ==
    {"present", "mobility", "implant", "furcation",
     "bleeding_on_probing_distal", "bleeding_on_probing_mid",
     "bleeding_on_probing_mesial", "plaque_on_probing_distal",
     "plaque_on_probing_mid", "plaque_on_probing_mesial",
     "gingival_margin_distal", "gingival_margin_mid",
     "gingival_margin_mesial", "probing_depth_distal", "probing_depth_mid",
     "probing_depth_mesial", "notes"}

\* C1: once the chart is initialized, from whatever partial initial values,
\* and after every update a cell issues, the keys of the chart are exactly
\* the 32 catalogue teeth, and every tooth has exactly a buccal and a palatal
\* measurement, each with all its fields
C1_ChartKeySet ==
    lifecycle # "created" =>
        /\ DOMAIN chartData = Catalogue
        /\ \A tooth \in DOMAIN chartData :
               /\ DOMAIN chartData[tooth] = {"buccal", "palatal"}
               /\ \A surface \in DOMAIN chartData[tooth] :
                      DOMAIN chartData[tooth][surface] = MeasurementFields

\* C1 witness: a chart built from partial initial values (one surface
\* overridden, the other null, a tooth outside the catalogue) that the cells
\* have updated twice
C1_Witness ==
    /\ lifecycle = "mounted"
    /\ "99" \in DOMAIN initialValues
    /\ chartRef >= 2
    /\ chartData # InitChart(initialValues)

-----------------------------------------------------------------------------
(* The construction of the chart, from many initialValues *)

\* the values an override gives to a field: of the field's type, in and out
\* of its range, and an own property that is undefined
OverrideValues(field) ==
    IF field \in NUMBER_FIELDS THEN {Num(2), Num(20), Undefined}
    ELSE IF field \in TEXT_FIELDS THEN {Str(<<"a">>)}
    ELSE {Bool(TRUE), Bool(FALSE)}

\* the initialValues that override one field of one surface of one tooth
SingleOverrides ==
    UNION {{Override(tooth, surface, field, value) :
               tooth \in Range(ALL_TEETH), surface \in Range(SURFACES),
               value \in OverrideValues(field)} :
           field \in DOMAIN createDefaultMeasurement}

\* initialValues of other shapes: none; a null tooth entry; a null and a
\* missing surface; both surfaces; two teeth; a tooth outside the catalogue;
\* a whole measurement; an empty override
ShapedOverrides ==
    {<<>>,
     "18" :> Null,
     "18" :> Obj("buccal" :> Null),
     "18" :> Obj(("buccal" :> Obj("implant" :> Bool(TRUE)))
                 @@ ("palatal" :> Obj("mobility" :> Num(3)))),
     Both(Override("11", "buccal", "notes", Str(<<"a", "b">>)),
          Override("21", "palatal", "furcation", Num(1))),
     Override("99", "buccal", "mobility", Num(1)),
     "41" :> Obj("palatal" :> Obj([createDefaultMeasurement EXCEPT
                                       !.present = Bool(FALSE),
                                       !.probing_depth_mid = Num(4)])),
     "41" :> Obj("palatal" :> Obj(<<>>))}

BuildInputs == SingleOverrides \cup ShapedOverrides

InitBuild ==
    /\ \E iv \in BuildInputs : Created(iv, FALSE, FALSE)
    /\ NavIdle /\ UpdIdle /\ ValIdle

NextBuild == Mount

SpecBuild == InitBuild /\ [][NextBuild]_vars

\* the canonical default of a field, as the specification states it:
\* present true, every number 0, every flag false, notes empty
CanonicalDefault(field) ==
    IF field = "present" THEN Bool(TRUE)
    ELSE IF field \in {"mobility", "furcation", "gingival_margin_distal",
                       "gingival_margin_mid", "gingival_margin_mesial",
                       "probing_depth_distal", "probing_depth_mid",
                       "probing_depth_mesial"} THEN Num(0)
    ELSE IF field = "notes" THEN Str(<<>>)
    ELSE Bool(FALSE)

\* the override supplies the field of the surface of the tooth
Supplies(iv, tooth, surface, field) ==
    /\ tooth \in DOMAIN iv
    /\ iv[tooth].t = "object"
    /\ surface \in DOMAIN iv[tooth].v
    /\ iv[tooth].v[surface].t = "object"
    /\ field \in DOMAIN iv[tooth].v[surface].v

\* C2: the built chart holds, for every catalogue tooth, surface and field,
\* the value of the override when the override supplies the field, and the
\* canonical default otherwise
C2_FieldWiseMerge ==
    (lifecycle = "mounted" /\ chartRef = 0 /\ dirty /\ ~deps.ran) =>
        \A tooth \in Catalogue, surface \in {"buccal", "palatal"},
           field \in MeasurementFields :
            chartData[tooth][surface][field] =
                IF Supplies(initialValues, tooth, surface, field)
                THEN initialValues[tooth].v[surface].v[field]
                ELSE CanonicalDefault(field)

\* C2 witness: a chart built from an override of one field that differs from
\* the default, with every other field, surface and tooth at the default
C2_Witness ==
    /\ lifecycle = "mounted" /\ chartRef = 0 /\ ~deps.ran
    /\ initialValues = Override("36", "palatal", "probing_depth_mesial", Num(2))
    /\ chartData["36"]["palatal"]["probing_depth_mesial"] = Num(2)
    /\ chartData["36"]["buccal"]["probing_depth_mesial"] = Num(0)
    /\ chartData["36"]["palatal"]["probing_depth_mid"] = Num(0)
    /\ chartData["37"]["palatal"]["probing_depth_mesial"] = Num(0)

-----------------------------------------------------------------------------
(* The update transform, on object identities *)

\* handleUpdate calls in one run
MaxUpdates == 2

\* the teeth the calls name: two of the catalogue, one outside it
UpdateTeeth == {"18", "41", "99"}

\* the fields and values the calls name
UpdateValues ==
    {<<"mobility", Num(1)>>, <<"mobility", Num(2)>>,
     <<"implant", Bool(TRUE)>>, <<"notes", Str(<<"a">>)>>}

InitUpdate ==
    /\ Created(<<>>, FALSE, FALSE)
    /\ heap = InitHeap(<<>>)
    /\ curChart = InitChartRef
    /\ prevChart = 0
    /\ updCall = NoUpdCall
    /\ NavIdle /\ ValIdle

\* setChartData(updater): React applies the updater to the current chart
Update ==
    /\ updCall.count < MaxUpdates
    /\ \E tooth \in UpdateTeeth, surface \in Range(SURFACES),
          fv \in UpdateValues :
           LET r == handleUpdateRef(heap, curChart, tooth, surface,
                                    fv[1], fv[2])
           IN  /\ heap' = r.heap
               /\ curChart' = r.ref
               /\ prevChart' = curChart
               /\ updCall' = [count |-> updCall.count + 1, tooth |-> tooth,
                              surface |-> surface, field |-> fv[1],
                              value |-> fv[2]]
    /\ UNCHANGED <<compVars, navVars, valVars>>

NextUpdate == Update

SpecUpdate == InitUpdate /\ [][NextUpdate]_vars

\* the update on identities and the update on values build the same chart
UpdateModelsAgree ==
    [][updCall'.count # updCall.count =>
          Deref(heap', curChart') =
              handleUpdate(Deref(heap, curChart), updCall'.tooth,
                           updCall'.surface, updCall'.field, updCall'.value)
      ]_vars

\* C3: an update changes only the targeted field of the targeted surface of
\* the targeted tooth: the new measurement holds the value in that field and
\* the previous value in every other, the other surface of the tooth is the
\* same object as before, every other tooth entry of the new chart is the
\* same object as in the previous chart, and no object that existed before
\* the update, the previous chart among them, is changed
C3_UpdateFrame ==
    [][updCall'.count # updCall.count =>
          LET u == updCall'
              prev == heap[curChart]
              new == heap'[curChart']
          IN  /\ \A id \in 1..Len(heap) : heap'[id] = heap[id]
              /\ curChart' \notin 1..Len(heap)
              /\ DOMAIN new = DOMAIN prev \cup {u.tooth}
              /\ \A tooth \in DOMAIN prev \ {u.tooth} :
                     new[tooth] = prev[tooth]
              /\ heap'[heap'[new[u.tooth].v][u.surface].v][u.field] = u.value
              /\ u.tooth \in DOMAIN prev =>
                     LET old == heap[prev[u.tooth].v]
                         entry == heap'[new[u.tooth].v]
                     IN  /\ DOMAIN entry = DOMAIN old
                         /\ \A surface \in DOMAIN old \ {u.surface} :
                                entry[surface] = old[surface]
                         /\ \A field \in DOMAIN heap[old[u.surface].v]
                                          \ {u.field} :
                                heap'[entry[u.surface].v][field] =
                                    heap[old[u.surface].v][field]
                         /\ DOMAIN heap'[entry[u.surface].v] =
                                DOMAIN heap[old[u.surface].v]
      ]_vars

\* C3 witness: after two updates of the buccal surface of tooth 18, the
\* chart is a new object that holds both values, its palatal surface of
\* tooth 18 and its entry of tooth 17 are the objects of the first chart,
\* and the first chart still holds the defaults
C3_Witness ==
    /\ updCall.count = 2
    /\ curChart # prevChart /\ prevChart # InitChartRef
    /\ Deref(heap, curChart)["18"]["buccal"]["mobility"] = Num(2)
    /\ Deref(heap, curChart)["18"]["buccal"]["implant"] = Bool(TRUE)
    /\ heap[heap[curChart]["18"].v]["palatal"] =
           heap[heap[InitChartRef]["18"].v]["palatal"]
    /\ heap[curChart]["17"] = heap[InitChartRef]["17"]
    /\ Deref(heap, InitChartRef) = InitChart(<<>>)

-----------------------------------------------------------------------------
(* The edit of a number cell: from the text to the stored value *)

\* the integers typed lie in -MaxTyped..MaxTyped
MaxTyped == 16

\* the integers typed: beyond both ends of every range, and the 99 of the
\* specification's example
TypedIntegers == (-MaxTyped..MaxTyped) \cup {99}

\* what a number input reports for an input that is not a number (""), and
\* other texts without a leading integer
NonNumericTexts == {<<>>, <<"-">>, <<"a", "b", "c">>}

\* the number cells of one tooth surface
CommitCells == {<<"18", "buccal", field>> : field \in NUMBER_FIELDS}

\* the numbers the chart stores before the edit: the ends of the ranges,
\* and numbers out of every range
StoredBefore == {-11, -10, 0, 3, 10, 15, 20}

\* the charts the edits start from: every number field of the surface holds
\* the same stored number
CommitInputs ==
    {"18" :> Obj("buccal" :> Obj([field \in NUMBER_FIELDS |-> Num(w)])) :
        w \in StoredBefore}

\* a mounted chart, no cell of which has debounced an edit yet
InitCommit ==
    /\ \E iv \in CommitInputs :
           /\ initialValues = iv
           /\ chartData = InitChart(iv)
           /\ validationErrors = ValidationErrorsOf(InitChart(iv))
           /\ summaryStats = SummaryStatsOf(InitChart(iv))
           /\ debouncedChartData = [ref |-> 0, data |-> InitChart(iv)]
    /\ lifecycle = "mounted"
    /\ readOnly = FALSE /\ hasOnSubmit = FALSE
    /\ chartRef = 0
    /\ localValue = <<>> /\ debouncedValue = <<>>
    /\ timers = <<>> /\ deps = NoDeps /\ dirty = FALSE
    /\ onChangeCalls = <<>> /\ onChangeArg = <<>> /\ onSubmitCalls = <<>>
    /\ events = 0
    /\ heap = <<>> /\ curChart = 0 /\ prevChart = 0 /\ updCall = NoUpdCall
    /\ NavIdle /\ ValIdle

\* the text typed into the cell c has become its debounced value: the
\* commit effect runs, and its onChange is handleUpdate on the cell's field
\* (one edit in a run: each run applies the commit to one text and one chart)
CommitEdit(c, text) ==
    /\ events = 0
    /\ LET commit == CellCommit(c, text, ValueProp(chartData, c))
       IN  /\ debouncedValue' = (c :> text) @@ debouncedValue
           /\ chartData' = IF commit.call
                            THEN handleUpdate(chartData, c[1], c[2], c[3],
                                              commit.value)
                            ELSE chartData
           /\ chartRef' = IF commit.call THEN chartRef + 1 ELSE chartRef
           /\ updCall' = IF commit.call
                          THEN [count |-> updCall.count + 1, tooth |-> c[1],
                                surface |-> c[2], field |-> c[3],
                                value |-> commit.value]
                          ELSE updCall
    /\ validationErrors' = ValidationErrorsOf(chartData')
    /\ summaryStats' = SummaryStatsOf(chartData')
    /\ events' = events + 1
    /\ UNCHANGED <<lifecycle, readOnly, hasOnSubmit, initialValues, localValue,
                   debouncedChartData, timers, deps, dirty, onChangeCalls,
                   onChangeArg, onSubmitCalls>>
    /\ UNCHANGED <<navVars, heap, curChart, prevChart, valVars>>

CommitInteger ==
    \E c \in CommitCells, v \in TypedIntegers : CommitEdit(c, IntToString(v))

CommitNonNumeric ==
    \E c \in CommitCells, text \in NonNumericTexts : CommitEdit(c, text)

\* the lengths of the notes committed: up to the cap and beyond it
NoteLengths == {1, NOTES_MAX_LENGTH, NOTES_MAX_LENGTH + 1, 2 * NOTES_MAX_LENGTH}

CommitNotes ==
    \E n \in NoteLengths : CommitEdit(<<"18", "buccal", "notes">>, LongNote(n))

NextCommit == CommitInteger \/ CommitNonNumeric \/ CommitNotes

SpecCommit == InitCommit /\ [][NextCommit]_vars

\* the declared domain of a numeric field, as the specification states it
DeclaredMin(field) ==
    IF field \in {"gingival_margin_distal", "gingival_margin_mid",
                  "gingival_margin_mesial"} THEN -10 ELSE 0
DeclaredMax(field) ==
    IF field \in {"mobility", "furcation"} THEN 3
    ELSE IF field \in {"gingival_margin_distal", "gingival_margin_mid",
                       "gingival_margin_mesial"} THEN 10
    ELSE 15

\* max(min, min(max, v))
Clamp(min, max, v) ==
    LET low == IF v < max THEN v ELSE max
    IN  IF low > min THEN low ELSE min

\* C4: for every numeric field and every integer v, after the edit of the
\* field's cell to v the chart stores max(min, min(max, v)) in the field,
\* and after an edit to a text that is not a number it stores 0 clamped
\* into the domain
C4_Clamp ==
    \A c \in DOMAIN debouncedValue :
        LET stored == chartData[c[1]][c[2]][c[3]]
            min == DeclaredMin(c[3])
            max == DeclaredMax(c[3])
        IN  /\ \A v \in TypedIntegers :
                   debouncedValue[c] = IntToString(v) =>
                       stored = Num(Clamp(min, max, v))
            /\ debouncedValue[c] \in NonNumericTexts =>
                   stored = Num(Clamp(min, max, 0))

\* C4 witness: probing depth given 99 stores 15
C4_Witness ==
    /\ <<"18", "buccal", "probing_depth_mid">> \in DOMAIN debouncedValue
    /\ debouncedValue[<<"18", "buccal", "probing_depth_mid">>] = <<"9", "9">>
    /\ chartData["18"]["buccal"]["probing_depth_mid"] = Num(15)
    /\ updCall.count = 1

-----------------------------------------------------------------------------
(* The validation of one measurement, over many measurements *)

\* the out-of-range numbers lie up to MaxExcess beyond the ends of a range
MaxExcess == 2

\* the values a ruled field takes: the ends of its range, numbers inside and
\* outside it, undefined, null, and a string that reads as a number
RuledValues(rule) ==
    {Num(v) : v \in (rule.min - MaxExcess)..(rule.min + 1)}
        \cup {Num(v) : v \in (rule.max - 1)..(rule.max + MaxExcess)}
        \cup {Undefined, Null, Str(<<"2", "0">>)}

\* the measurements in which one field, ruled or not, differs from the
\* default, or lacks
OneFieldVaried ==
    UNION {{[createDefaultMeasurement EXCEPT ![rule.field] = value] :
               value \in RuledValues(rule)} : rule \in Range(VALIDATION_RULES)}
    \cup {[createDefaultMeasurement EXCEPT ![field] = value] :
            field \in CHECKBOX_FIELDS \cup {"present"},
            value \in {Bool(TRUE), Bool(FALSE), Undefined}}
    \cup {[createDefaultMeasurement EXCEPT !.notes = value] :
            value \in {Str(<<"a">>), Undefined, Null}}
    \cup {[field \in DOMAIN createDefaultMeasurement \ {lacking} |->
                createDefaultMeasurement[field]] :
            lacking \in DOMAIN createDefaultMeasurement}

\* the measurements in which a field of each of two kinds is off: a
\* probing depth and a gingival margin, or a mobility and a furcation
TwoFieldsVaried ==
    {[createDefaultMeasurement EXCEPT ![a.field] = va, ![b.field] = vb] :
        a \in {r \in Range(VALIDATION_RULES) : r.field = "probing_depth_mid"},
        b \in {r \in Range(VALIDATION_RULES) : r.field = "gingival_margin_distal"},
        va \in {Num(-1), Num(15), Num(16), Undefined},
        vb \in {Num(-11), Num(-10), Num(11), Null}}
    \cup {[createDefaultMeasurement EXCEPT !.mobility = va, !.furcation = vb] :
            va \in {Num(-1), Num(3), Num(4), Null},
            vb \in {Num(0), Num(4), Undefined}}

ValidateInputs == OneFieldVaried \cup TwoFieldsVaried

InitValidate ==
    /\ Created(<<>>, FALSE, FALSE)
    /\ vData \in ValidateInputs
    /\ vErrors = {}
    /\ vDone = FALSE
    /\ NavIdle /\ UpdIdle

\* validateToothData(vData) returns
Validate ==
    /\ ~vDone
    /\ vErrors' = validateToothData(vData)
    /\ vDone' = TRUE
    /\ UNCHANGED <<compVars, navVars, updVars, vData>>

NextValidate == Validate

SpecValidate == InitValidate /\ [][NextValidate]_vars

\* the 8 ruled fields, as the specification lists them
RuledFields ==
    {"mobility", "furcation", "gingival_margin_distal", "gingival_margin_mid",
     "gingival_margin_mesial", "probing_depth_distal", "probing_depth_mid",
     "probing_depth_mesial"}

\* the value of a field of a measurement is absent: undefined or null
Absent(data, field) ==
    field \notin DOMAIN data \/ data[field].t \in {"undefined", "null"}

\* the value of a field is a number strictly below min or strictly above max
OutOfRange(data, field) ==
    /\ field \in DOMAIN data
    /\ data[field].t = "number"
    /\ (data[field].v < DeclaredMin(field) \/ data[field].v > DeclaredMax(field))

\* the violation set the specification states for a measurement
ViolationsOf(data) ==
    {field \o "_required" : field \in {f \in RuledFields : Absent(data, f)}}
        \cup {field \o "_range" :
                 field \in {f \in RuledFields : OutOfRange(data, f)}}

\* C5: validateToothData returns exactly the set that holds, for each of the
\* 8 ruled fields, "{field}_required" iff the value is undefined or null and
\* "{field}_range" iff the value is a number strictly below min or strictly
\* above max; it holds nothing else, so no code for a value at an end of its
\* range nor for a boolean or text field; it returns for every measurement
C5_ExactViolations ==
    vDone => vErrors = ViolationsOf(vData)

\* C5 witness: validateToothData has returned, for a measurement with a
\* null mobility, a furcation above its maximum and every other ruled field
\* at the minimum of its range or inside it, the two codes and no other
C5_Witness ==
    /\ vDone
    /\ vData = [createDefaultMeasurement EXCEPT !.mobility = Null,
                                                !.furcation = Num(4)]
    /\ vErrors = {"mobility_required", "furcation_range"}

-----------------------------------------------------------------------------
(* Properties of the violation mapping and of the submission gate *)

\* the measurement of a catalogue tooth and surface has no violation
NoViolation(chart) ==
    \A tooth \in Catalogue, surface \in {"buccal", "palatal"} :
        ViolationsOf(chart[tooth][surface]) = {}

\* C6: in every state from the first render on, the violation mapping is
\* the function of the committed chart that the specification states: the
\* key "{tooth}-{surface}" is present iff the measurement has a violation,
\* it maps to the violation set of that measurement, there is no other key
\* and no key maps to the empty set (so the mapping of a chart with every
\* ruled field in range is empty, and the chart is valid)
C6_ViolationMapping ==
    lifecycle # "created" =>
        /\ \A tooth \in Catalogue, surface \in {"buccal", "palatal"} :
               LET key == tooth \o "-" \o surface
                   violations == ViolationsOf(chartData[tooth][surface])
               IN  /\ key \in DOMAIN validationErrors <=> violations # {}
                   /\ key \in DOMAIN validationErrors =>
                          validationErrors[key] = violations
        /\ DOMAIN validationErrors \subseteq
               {tooth \o "-" \o surface :
                   tooth \in Catalogue, surface \in {"buccal", "palatal"}}
        /\ \A key \in DOMAIN validationErrors : validationErrors[key] # {}
        /\ IsDataValid(validationErrors) <=> NoViolation(chartData)

\* C6 witness: a chart with one probing depth at 20 maps the key of that
\* tooth surface to a set that holds the range code of that probing depth,
\* and maps no other key
C6_Witness ==
    /\ lifecycle = "mounted"
    /\ chartData["18"]["buccal"]["probing_depth_distal"] = Num(20)
    /\ DOMAIN validationErrors = {"18-buccal"}
    /\ "probing_depth_distal_range" \in validationErrors["18-buccal"]

\* C7: a submit invokes onSubmit iff the committed chart has no violation,
\* and then with the committed chart as its argument; a submit while a
\* violation exists invokes no callback and changes no state of the
\* component (but the count of user events the model keeps)
C7_SubmitGate ==
    [][Submit =>
          /\ onSubmitCalls' # onSubmitCalls <=> NoViolation(chartData)
          /\ NoViolation(chartData) =>
                 onSubmitCalls' = Append(onSubmitCalls, chartData)
          /\ ~NoViolation(chartData) =>
                 UNCHANGED <<lifecycle, readOnly, hasOnSubmit, initialValues,
                             chartData, chartRef, validationErrors, summaryStats,
                             localValue, debouncedValue, debouncedChartData,
                             timers, deps, dirty, onChangeCalls, onChangeArg,
                             onSubmitCalls>>
          /\ UNCHANGED <<chartData, chartRef, onChangeCalls>>
      ]_vars

\* C7 witness: the chart built with a probing depth of 20 was clamped by
\* the cell to 15, and the submit that followed invoked onSubmit with the
\* clamped chart, which has no violation
C7_Witness ==
    /\ lifecycle = "mounted"
    /\ events = 1
    /\ Len(onSubmitCalls) = 1
    /\ onSubmitCalls[1] = chartData
    /\ chartData["18"]["buccal"]["probing_depth_distal"] = Num(15)
    /\ chartData # InitChart(initialValues)
    /\ NoViolation(onSubmitCalls[1])

\* a submit was attempted while a required number was absent: no onSubmit
C7_WitnessBlocked ==
    /\ lifecycle = "mounted"
    /\ events = 1 /\ chartRef = 0
    /\ localValue = [c \in InputCells |-> JsToString(ValueProp(chartData, c))]
    /\ "mobility_required" \in ViolationsOf(chartData["18"]["buccal"])
    /\ ~readOnly /\ hasOnSubmit
    /\ onSubmitCalls = <<>>

-----------------------------------------------------------------------------
(* Keyboard navigation over the mounted grid *)

\* the keys a user presses on a cell, each with the state of the shift key
Keys == {<<"ArrowRight", FALSE>>, <<"ArrowLeft", FALSE>>,
         <<"ArrowUp", FALSE>>, <<"ArrowDown", FALSE>>, <<"Enter", FALSE>>,
         <<"Tab", FALSE>>, <<"Tab", TRUE>>, <<"a", FALSE>>}

\* the directions handleKeyDown is called with: the four it knows, and
\* another
Directions == {"next", "prev", "up", "down", "left"}

\* the calls of handleKeyDown with a key that no cell carries: a field that
\* is not navigable, a tooth outside the catalogue
UnknownCalls ==
    {<<"18-buccal-present", "next">>, <<"99-buccal-mobility", "left">>}

InitNav ==
    /\ \E ro \in BOOLEAN : Created(<<>>, ro, TRUE)
    /\ NavIdle /\ UpdIdle /\ ValIdle

\* the grid takes keys and clicks: it is mounted and rendered
CanNavigate == lifecycle = "mounted" /\ ~dirty

\* the user clicks a first cell, which takes the focus: the start of a
\* sequence of moves
FocusCell ==
    /\ CanNavigate
    /\ focus = ""
    /\ \E key \in DOMAIN CellOfKey :
           /\ Focusable(key, readOnly)
           /\ focus' = key
    /\ navCall' = NoNavCall
    /\ UNCHANGED <<compVars, updVars, valVars>>

\* handleKeyDown(currentKey, direction): the target is looked up, and the
\* element that carries it, if one can take the focus, is focused
handleKeyDown(currentKey, direction) ==
    LET target == NavTarget(currentKey, direction)
    IN  /\ focus' = IF target.found /\ Focusable(target.key, readOnly)
                     THEN target.key ELSE focus
        /\ navCall' = [called |-> TRUE, key |-> currentKey,
                       direction |-> direction, target |-> target,
                       from |-> focus]
        /\ UNCHANGED <<compVars, updVars, valVars>>

\* the user presses a key on the focused cell, whose onKeyDown handler
\* calls handleKeyDown with the cell's key
KeyPress ==
    /\ CanNavigate
    /\ focus \in DOMAIN CellOfKey
    /\ \E e \in Keys :
           LET direction == KeyDirection(CellOfKey[focus][3], e[1], e[2])
           IN  /\ direction # ""
               /\ handleKeyDown(focus, direction)

\* handleKeyDown is called with any key and direction
NavigateCall ==
    /\ CanNavigate
    /\ \E call \in ({focus} \X Directions) \cup UnknownCalls :
           handleKeyDown(call[1], call[2])

NextNav ==
    \/ Mount
    \/ FlushEffects
    \/ FocusCell
    \/ KeyPress
    \/ NavigateCall

SpecNav == InitNav /\ [][NextNav]_vars

\* the catalogue in its flattened order, as the specification lists it
CatalogueOrder ==
    <<"18", "17", "16", "15", "14", "13", "12", "11",
      "21", "22", "23", "24", "25", "26", "27", "28",
      "31", "32", "33", "34", "35", "36", "37", "38",
      "48", "47", "46", "45", "44", "43", "42", "41">>

\* the fixed order of the 16 navigable fields, as the specification lists it
FieldOrder ==
    <<"mobility", "implant", "furcation",
      "bleeding_on_probing_distal", "bleeding_on_probing_mid",
      "bleeding_on_probing_mesial",
      "plaque_on_probing_distal", "plaque_on_probing_mid",
      "plaque_on_probing_mesial",
      "gingival_margin_distal", "gingival_margin_mid",
      "gingival_margin_mesial",
      "probing_depth_distal", "probing_depth_mid", "probing_depth_mesial",
      "notes">>

\* the cellKey of tooth index i, surface s and field index j (0-based)
Cell(i, s, j) ==
    CatalogueOrder[i + 1] \o "-" \o s \o "-" \o FieldOrder[j + 1]

\* the cells, as (tooth index, surface, field index)
Positions == (0..31) \X {"buccal", "palatal"} \X (0..15)

\* the position of each cellKey
PositionOf ==
    [k \in {Cell(p[1], p[2], p[3]) : p \in Positions} |->
        CHOOSE p \in Positions : Cell(p[1], p[2], p[3]) = k]

\* the neighbour the specification gives a cell in a direction
Neighbour(key, direction) ==
    LET i == PositionOf[key][1]
        s == PositionOf[key][2]
        j == PositionOf[key][3]
    IN  CASE direction = "next" -> Cell((i + 1) % 32, s, j)
          [] direction = "prev" -> Cell((i - 1 + 32) % 32, s, j)
          [] direction = "down" -> Cell(i, s, (j + 1) % 16)
          [] direction = "up" -> Cell(i, s, (j - 1 + 16) % 16)

\* C8: for the cell of every tooth index i, surface s and field index j,
\* the target handleKeyDown resolves from the navigation map is the cell
\* ((i+1) mod 32, s, j) for next, ((i-1+32) mod 32, s, j) for prev,
\* (i, s, (j+1) mod 16) for down and (i, s, (j-1+16) mod 16) for up; a target
\* exists in each of the four directions, and it is a cell
C8_NeighbourFormulas ==
    (/\ navCall.called
     /\ navCall.key \in DOMAIN PositionOf
     /\ navCall.direction \in {"next", "prev", "up", "down"}) =>
        /\ navCall.target.found
        /\ navCall.target.key = Neighbour(navCall.key, navCall.direction)
        /\ navCall.target.key \in DOMAIN PositionOf

\* C8 witness: prev of 18-buccal-mobility is 41-buccal-mobility, and the
\* focus has moved there
C8_Witness ==
    /\ navCall.called
    /\ navCall.key = "18-buccal-mobility"
    /\ navCall.direction = "prev"
    /\ navCall.target = [found |-> TRUE, key |-> "41-buccal-mobility"]
    /\ navCall.from = "18-buccal-mobility"
    /\ focus = "41-buccal-mobility"

\* down of 18-buccal-notes is 18-buccal-mobility
C8_WitnessDown ==
    /\ navCall.called
    /\ navCall.key = "18-buccal-notes"
    /\ navCall.direction = "down"
    /\ navCall.target = [found |-> TRUE, key |-> "18-buccal-mobility"]
    /\ focus = "18-buccal-mobility"

\* C9: a move of the focus by handleKeyDown keeps the surface of the focused
\* cell; a move up or down keeps its tooth as well, and a move next or prev
\* keeps its field as well
C9_SurfaceIsolation ==
    [][(navCall'.called /\ navCall' # navCall /\ focus \in DOMAIN PositionOf) =>
          /\ focus' \in DOMAIN PositionOf
          /\ PositionOf[focus'][2] = PositionOf[focus][2]
          /\ navCall'.direction \in {"up", "down"} =>
                 PositionOf[focus'][1] = PositionOf[focus][1]
          /\ navCall'.direction \in {"next", "prev"} =>
                 PositionOf[focus'][3] = PositionOf[focus][3]
          /\ navCall'.target.found =>
                 /\ navCall'.target.key \in DOMAIN PositionOf
                 /\ PositionOf[navCall'.target.key][2] = PositionOf[focus][2]
      ]_vars

\* C9 witness: a move down from the last field of a palatal cell has moved
\* the focus to the first field of the same tooth and surface
C9_Witness ==
    /\ navCall.called
    /\ navCall.direction = "down"
    /\ navCall.from = "41-palatal-notes"
    /\ focus = "41-palatal-mobility"

\* C10: a handleKeyDown call with a key that is not in the navigation map,
\* or with a direction other than next, prev, up and down, resolves no
\* target, leaves the focus where it is and changes nothing of the
\* component: not its chart, not its timers
C10_UnknownIsNoOp ==
    [][(/\ navCall'.called
        /\ navCall' # navCall
        /\ \/ navCall'.key \notin DOMAIN PositionOf
           \/ navCall'.direction \notin {"next", "prev", "up", "down"}) =>
          /\ ~navCall'.target.found
          /\ focus' = focus
          /\ UNCHANGED <<chartData, chartRef, validationErrors, summaryStats, timers,
                         localValue, debouncedValue, debouncedChartData,
                         onChangeCalls, onSubmitCalls>>
      ]_vars

\* C10 witness: handleKeyDown was called with a key no cell carries while a
\* cell had the focus and the debounce timers were pending; no target
\* was found and the focus is where it was
C10_Witness ==
    /\ navCall.called
    /\ navCall.key = "18-buccal-present"
    /\ navCall.direction = "next"
    /\ navCall.target = NoTarget
    /\ navCall.from = "18-buccal-mobility"
    /\ focus = "18-buccal-mobility"
    /\ Len(timers) > 0

\* handleKeyDown was called on a cell with a direction it does not know
C10_WitnessDirection ==
    /\ navCall.called
    /\ navCall.key = "48-palatal-furcation"
    /\ navCall.direction = "left"
    /\ navCall.target = NoTarget
    /\ focus = "48-palatal-furcation"

-----------------------------------------------------------------------------
(* Editing sessions: several edits in a row on an editable chart *)

\* the number of edits of a session
MaxEdits == 2

\* the initial values of the sessions: none, and a probing depth out of range
EditInputs == {<<>>, Override("18", "buccal", "probing_depth_distal", Num(20))}

InitEdit ==
    /\ \E iv \in EditInputs : Created(iv, FALSE, FALSE)
    /\ NavIdle /\ UpdIdle /\ ValIdle

CanEdit == Idle /\ events < MaxEdits

EditNumber ==
    \E c \in InputCells, text \in NumberTexts :
        c[3] \in NUMBER_FIELDS /\ CanEdit /\ SetLocalValue(c, text)

EditNotes ==
    \E c \in InputCells, text \in NoteTexts :
        c[3] \in TEXT_FIELDS /\ CanEdit /\ SetLocalValue(c, text)

EditCheckbox == \E c \in TrackedCheckboxes : CanEdit /\ OnCheckedChange(c)

NextEdit ==
    \/ Mount
    \/ FlushEffects
    \/ EditNumber
    \/ EditNotes
    \/ EditCheckbox
    \/ Tick
    \/ CellTimerFire
    \/ ChartTimerFire
    \/ Unmount

SpecEdit == InitEdit /\ [][NextEdit]_vars

-----------------------------------------------------------------------------
(* Toggling sessions: checkbox cells of each kind, on charts that are
   readOnly or not *)

\* the number of toggles of a session
MaxToggles == 2

\* an implant cell, a bleeding cell and a plaque cell
FlagCells ==
    {<<"18", "buccal", "implant">>,
     <<"28", "palatal", "bleeding_on_probing_mid">>,
     <<"41", "buccal", "plaque_on_probing_mesial">>}

\* the initial values of the sessions: none, and a bleeding flag set
ToggleInputs ==
    {<<>>, Override("28", "palatal", "bleeding_on_probing_mid", Bool(TRUE))}

InitToggle ==
    /\ \E iv \in ToggleInputs, ro \in BOOLEAN : Created(iv, ro, FALSE)
    /\ NavIdle /\ UpdIdle /\ ValIdle

ToggleFlag ==
    \E c \in FlagCells : Idle /\ events < MaxToggles /\ OnCheckedChange(c)

NextToggle ==
    \/ Mount
    \/ FlushEffects
    \/ ToggleFlag
    \/ Tick
    \/ CellTimerFire
    \/ ChartTimerFire
    \/ Unmount

SpecToggle == InitToggle /\ [][NextToggle]_vars

-----------------------------------------------------------------------------
(* Properties of the debounced commits and notifications *)

\* the timers of an owner that are pending
TimersOf(owner) == {i \in 1..Len(timers) : timers[i].owner = owner}

\* C11: onChange is invoked only once an edit has been committed, and then
\* with the chart of the last commit (no commit came after the one whose
\* window ran out); at most one notification is pending, so each committed
\* chart is notified at most once and the charts of a burst that were
\* replaced within the window are not notified at all
C11_NotifiedOnlyAfterEdit ==
    /\ [](Cardinality(TimersOf(CHART)) <= 1)
    /\ [](\A i, j \in 1..Len(onChangeCalls) :
             onChangeCalls[i] = onChangeCalls[j] => i = j)
    /\ [][onChangeCalls' # onChangeCalls =>
             /\ onChangeCalls'[Len(onChangeCalls')] = chartRef
             /\ chartRef > 0
         ]_vars

\* the part of C11 that is about the commits: every notification passes the
\* chart of the last commit, once, and at most one is pending
C11_QuietWindow ==
    /\ [](Cardinality(TimersOf(CHART)) <= 1)
    /\ [](\A i, j \in 1..Len(onChangeCalls) :
             onChangeCalls[i] = onChangeCalls[j] => i = j)
    /\ [][onChangeCalls' # onChangeCalls =>
             onChangeCalls'[Len(onChangeCalls')] = chartRef
         ]_vars

\* the value the chart holds for a cell
Stored(c) == chartData[c[1]][c[2]][c[3]]

NumberCells == {c \in InputCells : c[3] \in NUMBER_FIELDS}
NoteCells == {c \in InputCells : c[3] \in TEXT_FIELDS}

\* the committed form of a text typed into a cell
CommittedForm(c, text) == CellCommit(c, text, Stored(c)).value

\* a cell holds at most one timer, and while its text is not the debounced
\* one (a keystroke is waiting) it holds one, set for that text
OneTimerPerCell(c) ==
    /\ Cardinality(TimersOf(c)) <= 1
    /\ \A i \in TimersOf(c) : timers[i].delay = CellDelay(c)
    /\ Idle => \A i \in TimersOf(c) : timers[i].value.text = localValue[c]
    /\ Idle /\ localValue[c] # debouncedValue[c] => TimersOf(c) # {}

\* the effects that follow a keystroke on a cell leave the cell one timer,
\* with the whole delay to run and the new text to deliver
KeystrokeRestartsTimer(c) ==
    lifecycle = "mounted" /\ dirty /\ deps.ran /\ localValue[c] # deps.local[c]
        => \E i \in 1..Len(timers') :
              /\ timers'[i].owner = c
              /\ timers'[i].remaining = CellDelay(c)
              /\ timers'[i].value.text = localValue[c]
              /\ \A j \in 1..Len(timers') : timers'[j].owner = c => j = i

\* the store changes the value of a cell in this step
Commits(c) == lifecycle = "mounted" /\ Stored(c)' # Stored(c)

\* the timer of a cell has run out: one was set and none is pending
TimerExpired(c) == deps.ran /\ TimersOf(c) = {}

\* C12: a numeric cell commits only when its timer has expired with no newer
\* keystroke, so that what it writes is the committed form of the text the
\* cell shows and never of a text that was overwritten; every keystroke
\* restarts the timer of its cell; a cell has at most one timer
C12_CommitOnlyOnExpiry ==
    /\ [](\A c \in NumberCells : OneTimerPerCell(c))
    /\ [][\A c \in NumberCells :
             /\ KeystrokeRestartsTimer(c)
             /\ Commits(c) =>
                   /\ TimerExpired(c)
                   /\ Stored(c)' = CommittedForm(c, localValue[c])
         ]_vars

\* the part of C12 that is about keystrokes: as C12, for the commits that
\* come after the effects of the first render
C12_KeystrokeCommits ==
    /\ [](\A c \in NumberCells : OneTimerPerCell(c))
    /\ [][\A c \in NumberCells :
             /\ KeystrokeRestartsTimer(c)
             /\ Commits(c) /\ deps.ran =>
                   /\ TimerExpired(c)
                   /\ Stored(c)' = CommittedForm(c, localValue[c])
         ]_vars

\* the committed form of a typed text, as the specification states it: the
\* integer it parses to (0 if none) within the declared domain of the field,
\* the first 100 characters of a note
TypedForm(c, text) ==
    IF c[3] \in NUMBER_FIELDS
    THEN Num(Clamp(DeclaredMin(c[3]), DeclaredMax(c[3]), ParseIntOrZero(text)))
    ELSE Str([k \in 1..Min2(Len(text), NOTES_MAX_LENGTH) |-> text[k]])

\* the text of a cell changes by a keystroke
Keystroke(c) == Idle /\ events' = events + 1 /\ localValue'[c] # localValue[c]

OnlyEdited(c) ==
    /\ \A d \in InputCells \ {c} :
           /\ Stored(d) = InitChart(initialValues)[d[1]][d[2]][d[3]]
           /\ localValue[d] = JsToString(Stored(d))
    /\ \A d \in TrackedCheckboxes : Stored(d) = Bool(FALSE)

C13_WitnessOverwritten ==
    LET c == <<"41", "palatal", "gingival_margin_mid">>
    IN  /\ Idle /\ timers = <<>>
        /\ initialValues = <<>>
        /\ events = 2 /\ chartRef = 0
        /\ OnlyEdited(c)
        /\ Stored(c) = Num(0)
        /\ localValue[c] = <<>>

\* C14: the toggle of a checkbox cell (implant, a bleeding flag, a plaque
\* flag) on a chart that is not readOnly is committed by the toggle itself:
\* in that step the stored flag becomes the negation of what it was, no
\* timer is set, cleared or awaited, and nothing else of the chart changes
C14_ToggleCommitsAtOnce ==
    [][\A c \in FlagCells :
          Idle /\ OnCheckedChange(c) =>
             /\ Stored(c).t = "boolean"
             /\ Stored(c)' = Bool(~Stored(c).v)
             /\ chartData' = [chartData EXCEPT ![c[1]][c[2]][c[3]] = Stored(c)']
             /\ timers' = timers
      ]_vars

\* a plaque flag was toggled on and a bleeding flag, set by the initial
\* values, was toggled off while the first timers of the cells were still
\* running: the chart holds both before any timer has run out
C14_Witness ==
    LET plaque == <<"41", "buccal", "plaque_on_probing_mesial">>
        bleeding == <<"28", "palatal", "bleeding_on_probing_mid">>
    IN  /\ lifecycle = "mounted" /\ ~readOnly
        /\ events = 2
        /\ Stored(plaque) = Bool(TRUE)
        /\ InitChart(initialValues)[bleeding[1]][bleeding[2]][bleeding[3]]
               = Bool(TRUE)
        /\ Stored(bleeding) = Bool(FALSE)
        /\ \A d \in InputCells :
               \E k \in TimersOf(d) : timers[k].remaining = CellDelay(d)

\* C15: a notes cell commits only when its 300 ms timer has run out with no
\* newer keystroke (every keystroke restarts that timer, and the cell holds
\* no other), and what it commits is the text the cell shows, the last one
\* typed, cut to its first 100 characters
C15_NotesCommit ==
    /\ [](\A c \in NoteCells :
             /\ OneTimerPerCell(c)
             /\ \A i \in TimersOf(c) :
                    timers[i].delay = TEXT_DELAY
                        /\ timers[i].remaining \in 0..TEXT_DELAY)
    /\ [][\A c \in NoteCells :
             /\ KeystrokeRestartsTimer(c)
             /\ Commits(c) =>
                   /\ TimerExpired(c)
                   /\ localValue'[c] = localValue[c]
                   /\ Stored(c)' = TypedForm(c, localValue[c])
         ]_vars

\* "a" was typed into the notes of a surface and overwritten by "ab" within
\* the window; the window of "ab" ran out and the one commit stored "ab"
C15_Witness ==
    LET c == <<"18", "palatal", "notes">>
    IN  /\ Idle /\ timers = <<>>
        /\ events = 2 /\ chartRef = 1
        /\ OnlyEdited(c)
        /\ Stored(c) = Str(<<"a", "b">>)
        /\ localValue[c] = <<"a", "b">>

\* the cut of C15 on texts of any length: a committed note is the debounced
\* text up to its 100th character
C15_Truncation ==
    \A c \in DOMAIN debouncedValue :
        c[3] \in TEXT_FIELDS =>
            /\ Stored(c) = TypedForm(c, debouncedValue[c])
            /\ Len(Stored(c).v) <= NOTES_MAX_LENGTH

\* C16: the unmount cancels every pending timer, of whatever cell or of the
\* change notification: from the unmount on no timer is pending, and neither
\* the unmount nor anything after it changes the chart, commits a debounced
\* text or chart, or invokes onChange
C16_UnmountCancels ==
    /\ [](lifecycle = "unmounted" => timers = <<>>)
    /\ [][lifecycle' = "unmounted" =>
             /\ chartData' = chartData
             /\ chartRef' = chartRef
             /\ debouncedValue' = debouncedValue
             /\ debouncedChartData' = debouncedChartData
             /\ onChangeCalls' = onChangeCalls
             /\ onSubmitCalls' = onSubmitCalls
         ]_vars

\* the chart was unmounted while a number cell and the notes cell each had a
\* typed text waiting for its window and a committed chart was waiting to be
\* notified: none of the three was delivered
C16_Witness ==
    LET number == <<"41", "palatal", "gingival_margin_mid">>
        notes == <<"18", "palatal", "notes">>
    IN  /\ lifecycle = "unmounted"
        /\ localValue[number] # debouncedValue[number]
        /\ Stored(number) # TypedForm(number, localValue[number])
        /\ localValue[notes] # debouncedValue[notes]
        /\ Stored(notes) # TypedForm(notes, localValue[notes])
        /\ chartRef > debouncedChartData.ref
        /\ onChangeCalls = <<0>>

\* the orders in which the cells of a set can be taken
OrdersOf(cells) ==
    {order \in [1..Cardinality(cells) -> cells] :
        \A j, k \in DOMAIN order : order[j] = order[k] => j = k}

\* the chart after the committed forms of the debounced texts of the cells
\* of an order, from the k-th on, are written one update after the other
RECURSIVE WrittenInOrder(_, _, _)
WrittenInOrder(chart, order, k) ==
    IF k > Len(order) THEN chart
    ELSE LET c == order[k]
         IN  WrittenInOrder(
                 [chart EXCEPT ![c[1]][c[2]][c[3]] =
                     TypedForm(c, debouncedValue[c])],
                 order, k + 1)

\* C17: commits to different cells commute and none is lost. Whatever cells
\* commit in a step, together after one render or one after the other, the
\* chart that results is the one every order of single-field writes gives,
\* it holds the new value of each of them, and after the effects of a
\* render every cell's field holds the committed form of its debounced text
C17_CommitsCommute ==
    [][lifecycle = "mounted" /\ dirty =>
          LET committing == {c \in InputCells : Commits(c)}
          IN  /\ \A order \in OrdersOf(committing) :
                     chartData' = WrittenInOrder(chartData, order, 1)
              /\ \A c \in InputCells :
                     Stored(c)' = TypedForm(c, debouncedValue[c])
      ]_vars

\* 20 was typed into a probing depth and into a gingival margin, the two
\* timers ran out back to back before one render, and the effects of that
\* render committed 15 and 10 on top of each other
C17_Witness ==
    LET depth == <<"18", "buccal", "probing_depth_distal">>
        margin == <<"41", "palatal", "gingival_margin_mid">>
    IN  /\ lifecycle = "mounted"
        /\ initialValues = <<>>
        /\ events = 2
        /\ deps.chart = 0 /\ chartRef = 2
        /\ Stored(depth) = Num(15)
        /\ Stored(margin) = Num(10)
        /\ debouncedValue[depth] = IntToString(20)
        /\ debouncedValue[margin] = IntToString(20)

\* the commutation of C17 on the updater itself: two calls of handleUpdate
\* that name different fields build, in either order, charts equal by value,
\* which hold both values
C17_UpdatesCommute ==
    [][updCall.count = 1 /\ updCall'.count = 2
          /\ <<updCall.tooth, updCall.surface, updCall.field>>
                # <<updCall'.tooth, updCall'.surface, updCall'.field>> =>
          LET a == updCall
              b == updCall'
              base == Deref(heap, prevChart)
              result == Deref(heap', curChart')
          IN  /\ result =
                    handleUpdate(handleUpdate(base, b.tooth, b.surface,
                                              b.field, b.value),
                                 a.tooth, a.surface, a.field, a.value)
              /\ result[a.tooth][a.surface][a.field] = a.value
              /\ result[b.tooth][b.surface][b.field] = b.value
      ]_vars

\* C18: the update is idempotent by value: a call of handleUpdate that
\* repeats the arguments of the call before it returns a chart, a new
\* object, that is equal by value to the chart the first call returned
C18_UpdateIdempotent ==
    [][updCall.count >= 1 /\ updCall' = [updCall EXCEPT !.count = @ + 1] =>
          /\ Deref(heap', curChart') = Deref(heap, curChart)
          /\ curChart' # curChart
      ]_vars

\* the mobility of a tooth without an entry was set to 2 twice: the second
\* call returned a new chart equal to the one it was given, which holds the
\* entry the first call created, with the 2
C18_Witness ==
    /\ updCall = [count |-> 2, tooth |-> "99", surface |-> "palatal",
                  field |-> "mobility", value |-> Num(2)]
    /\ curChart # prevChart
    /\ Deref(heap, curChart) = Deref(heap, prevChart)
    /\ Deref(heap, curChart)["99"] =
           [buccal |-> createDefaultMeasurement,
            palatal |-> [createDefaultMeasurement EXCEPT !.mobility = Num(2)]]

-----------------------------------------------------------------------------
(* Properties of out-of-range values *)

\* the ruled fields of the chart built from the initial values that hold a
\* number out of their range
OutOfRangeAtBuild ==
    {<<tooth, surface, field>> \in Catalogue \X {"buccal", "palatal"} \X RuledFields :
        OutOfRange(InitChart(initialValues)[tooth][surface], field)}

\* C19: the build corrects nothing, and an initial value out of range stays
\* in the chart as given: as long as the user has edited nothing, the field
\* holds it, the violation mapping has the field's range violation under
\* the key of its tooth and surface, and a submit is not delivered
C19_OutOfRangeInitialBlocks ==
    /\ [](lifecycle = "mounted" /\ events = 0 =>
             \A c \in OutOfRangeAtBuild :
                 LET key == c[1] \o "-" \o c[2]
                 IN  /\ Stored(c) = InitChart(initialValues)[c[1]][c[2]][c[3]]
                     /\ key \in DOMAIN validationErrors
                     /\ (c[3] \o "_range") \in validationErrors[key])
    /\ [][Submit /\ events = 0 /\ OutOfRangeAtBuild # {} =>
             onSubmitCalls' = onSubmitCalls
         ]_vars

\* the part of C19 that is about the build: until the effects of the first
\* render have run, the chart is the one built from the initial values,
\* out-of-range values included, and they are flagged
C19_BuiltAsGiven ==
    lifecycle = "mounted" /\ ~deps.ran =>
        /\ chartData = InitChart(initialValues)
        /\ \A c \in OutOfRangeAtBuild :
               (c[3] \o "_range") \in validationErrors[c[1] \o "-" \o c[2]]

\* C20: editing creates no out-of-range value. On a chart built with every
\* ruled field in its range, after whatever keystrokes, toggles and timer
\* expirations, every ruled field of the committed chart is a number within
\* its declared range, the violation mapping is empty and the data is valid;
\* and the bounds each number cell clamps to are those of the validation
\* rule of its field
C20_EditsStayInRange ==
    /\ \A k \in 1..Len(VALIDATION_RULES) :
           LET rule == VALIDATION_RULES[k]
           IN  /\ rule.field \in NUMBER_FIELDS
               /\ CellMin(rule.field) = rule.min
               /\ CellMax(rule.field) = rule.max
    /\ lifecycle # "created" /\ NoViolation(InitChart(initialValues)) =>
           /\ \A tooth \in Catalogue, surface \in {"buccal", "palatal"},
                 field \in RuledFields :
                   LET value == chartData[tooth][surface][field]
                   IN  /\ value.t = "number"
                       /\ value.v \in DeclaredMin(field)..DeclaredMax(field)
           /\ DOMAIN validationErrors = {}
           /\ IsDataValid(validationErrors)

\* 20 was typed into a probing depth and -11 into a gingival margin of a
\* chart built from defaults; both windows ran out, the chart holds the ends
\* of the two ranges, 15 and -10, and has no violation
C20_Witness ==
    LET depth == <<"18", "buccal", "probing_depth_distal">>
        margin == <<"41", "palatal", "gingival_margin_mid">>
    IN  /\ Idle /\ timers = <<>>
        /\ initialValues = <<>>
        /\ events = 2
        /\ Stored(depth) = Num(15)
        /\ Stored(margin) = Num(-10)
        /\ localValue[depth] = IntToString(15)
        /\ localValue[margin] = IntToString(-10)
        /\ DOMAIN validationErrors = {}

-----------------------------------------------------------------------------
(* Properties of the summary statistics *)

\* the updates applied to a mounted chart in a run of SpecSummary
MaxSummaryUpdates == 1

\* the first n sites in the order of the catalogue
FirstSites(n) == {ALL_SITES[i] : i \in 1..n}

\* the initialValues that give the fields of `flds` the value `value` on the
\* first n sites
OnFirstSites(n, flds, value) ==
    LET teeth == {site[1] : site \in FirstSites(n)}
    IN  [tooth \in teeth |->
            Obj([surface \in {site[2] : site \in {x \in FirstSites(n) :
                                                      x[1] = tooth}} |->
                    Obj([field \in flds |-> value])])]

\* { ...a, ...b } of two initialValues objects, surface by surface and field
\* by field
Merged(a, b) ==
    [tooth \in DOMAIN a \cup DOMAIN b |->
        IF tooth \notin DOMAIN b THEN a[tooth]
        ELSE IF tooth \notin DOMAIN a THEN b[tooth]
        ELSE Obj([surface \in DOMAIN a[tooth].v \cup DOMAIN b[tooth].v |->
                IF surface \notin DOMAIN b[tooth].v THEN a[tooth].v[surface]
                ELSE IF surface \notin DOMAIN a[tooth].v
                     THEN b[tooth].v[surface]
                ELSE Obj(b[tooth].v[surface].v @@ a[tooth].v[surface].v)])]

\* one, two or all three flags of a kind
FlagPatterns(flags) ==
    {{flags[2]}, {flags[1], flags[3]}, Range(flags)}

\* flags set on the first n sites, for every n, with or without a probing
\* depth beyond its maximum on the first site
FlagInputs ==
    {Merged(OnFirstSites(n, pattern, Bool(TRUE)),
            IF invalid
            THEN Override("18", "buccal", "probing_depth_distal", Num(20))
            ELSE <<>>) :
        n \in 0..Len(ALL_SITES),
        pattern \in FlagPatterns(PLAQUE_FIELDS)
                        \cup FlagPatterns(BLEEDING_FIELDS),
        invalid \in BOOLEAN}

\* a gingival margin and a probing depth on the first n sites
MeasureInputs ==
    {Merged(OnFirstSites(n, {"gingival_margin_distal"}, Num(margin)),
            OnFirstSites(n, {"probing_depth_mid", "probing_depth_mesial"},
                         Num(depth))) :
        n \in {1, 16, 48, Len(ALL_SITES)},
        margin \in {-10, -3, 3, 10},
        depth \in {0, 7, 15}}

SummaryInputs == FlagInputs \cup MeasureInputs

\* the updates of a run: a probing depth, a gingival margin, a plaque flag
\* next to one that may be set, a bleeding flag on the last site
SummaryUpdates ==
    {<<"18", "buccal", "probing_depth_distal", Num(9)>>,
     <<"48", "palatal", "gingival_margin_mesial", Num(-5)>>,
     <<"18", "buccal", "plaque_on_probing_distal", Bool(TRUE)>>,
     <<"38", "palatal", "bleeding_on_probing_mid", Bool(TRUE)>>}

InitSummary ==
    /\ \E iv \in SummaryInputs : Created(iv, FALSE, FALSE)
    /\ NavIdle /\ UpdIdle /\ ValIdle

\* handleUpdate on a mounted chart and the render that follows it, in which
\* the memos whose dependency is chartData are computed again
SummaryUpdate ==
    /\ lifecycle = "mounted"
    /\ events < MaxSummaryUpdates
    /\ \E u \in SummaryUpdates :
           /\ chartData' = handleUpdate(chartData, u[1], u[2], u[3], u[4])
           /\ updCall' = [count |-> updCall.count + 1, tooth |-> u[1],
                          surface |-> u[2], field |-> u[3], value |-> u[4]]
    /\ chartRef' = chartRef + 1
    /\ validationErrors' = ValidationErrorsOf(chartData')
    /\ summaryStats' = SummaryStatsOf(chartData')
    /\ events' = events + 1
    /\ UNCHANGED <<lifecycle, readOnly, hasOnSubmit, initialValues, localValue,
                   debouncedValue, debouncedChartData, timers, deps, dirty,
                   onChangeCalls, onChangeArg, onSubmitCalls>>
    /\ UNCHANGED <<navVars, heap, curChart, prevChart, valVars>>

NextSummary == Mount \/ SummaryUpdate

SpecSummary == InitSummary /\ [][NextSummary]_vars

\* the tooth-surface site records of a chart
SiteRecords == Range(ALL_TEETH) \X {"buccal", "palatal"}

PlaqueFlags ==
    {"plaque_on_probing_distal", "plaque_on_probing_mid",
     "plaque_on_probing_mesial"}
BleedingFlags ==
    {"bleeding_on_probing_distal", "bleeding_on_probing_mid",
     "bleeding_on_probing_mesial"}

\* the records with at least one of the flags set
Flagged(chart, flags) ==
    {site \in SiteRecords :
        \E flag \in flags : chart[site[1]][site[2]][flag] = Bool(TRUE)}

\* the whole number nearest to 100 * count / total, the larger of two
WholePercent(count, total) ==
    CHOOSE pct \in 0..100 :
        /\ 2 * pct * total - total <= 200 * count
        /\ 200 * count < 2 * pct * total + total

\* C21: plaquePercent and bleedingPercent are the whole-number percentages,
\* over the 64 site records, of the records with at least one of their three
\* plaque (bleeding) flags set: a record counts once, the denominator is 64
\* whatever the validity of the fields, and 16 flagged records give "25"
C21_PercentPerSite ==
    lifecycle = "mounted" =>
        /\ Cardinality(SiteRecords) = 64
        /\ summaryStats.plaquePercent
             = NatToString(WholePercent(
                   Cardinality(Flagged(chartData, PlaqueFlags)), 64))
        /\ summaryStats.bleedingPercent
             = NatToString(WholePercent(
                   Cardinality(Flagged(chartData, BleedingFlags)), 64))
        /\ Cardinality(Flagged(chartData, PlaqueFlags)) = 16
               => summaryStats.plaquePercent = <<"2", "5">>

\* 16 records with two plaque flags each, one of them with a probing depth
\* beyond the maximum: "25"
C21_Witness ==
    /\ lifecycle = "mounted"
    /\ Cardinality(Flagged(chartData, PlaqueFlags)) = 16
    /\ \A site \in Flagged(chartData, PlaqueFlags) :
           Cardinality({flag \in PlaqueFlags :
               chartData[site[1]][site[2]][flag] = Bool(TRUE)}) = 2
    /\ chartData["18"]["buccal"]["probing_depth_distal"] = Num(20)
    /\ validationErrors # <<>>
    /\ summaryStats.plaquePercent = <<"2", "5">>
    /\ summaryStats.bleedingPercent = <<"0">>

\* the sum of f over a set
RECURSIVE SumOf(_, _)
SumOf(set, f) ==
    IF set = {} THEN 0
    ELSE LET x == CHOOSE y \in set : TRUE
         IN  f[x] + SumOf(set \ {x}, f)

MarginFields ==
    {"gingival_margin_distal", "gingival_margin_mid", "gingival_margin_mesial"}
DepthFields ==
    {"probing_depth_distal", "probing_depth_mid", "probing_depth_mesial"}

\* the sum of the values of the given fields over all site records
FieldSum(chart, flds) ==
    SumOf(Range(ALL_TEETH),
          [tooth \in Range(ALL_TEETH) |->
              SumOf({"buccal", "palatal"} \X flds,
                    [sf \in {"buccal", "palatal"} \X flds |->
                        chart[tooth][sf[1]][sf[2]].v])])

\* the two charts hold the same gingival margins
SameMargins(a, b) ==
    \A site \in SiteRecords, field \in MarginFields :
        a[site[1]][site[2]][field] = b[site[1]][site[2]][field]

\* C22: the mean attachment level of the summary is the sum of the 192
\* gingival-margin values divided by 192, to one decimal: it is the same for
\* the committed chart and for the chart with the same gingival margins and
\* the probing depths the chart was built with, so that an update of a
\* probing depth leaves it as it was
C22_MarginsOnly ==
    lifecycle = "mounted" =>
        /\ Cardinality(SiteRecords \X MarginFields) = 192
        /\ summaryStats.meanMargin
             = ToFixed(FieldSum(chartData, MarginFields), 192, 1)
        /\ SameMargins(chartData, InitChart(initialValues))
               => summaryStats.meanMargin
                    = SummaryStatsOf(InitChart(initialValues)).meanMargin

\* a probing depth was updated on a chart with margins of 3 on 16 sites and
\* depths of 7: the mean depth is another one, the mean margin still "0.3"
C22_Witness ==
    /\ lifecycle = "mounted"
    /\ updCall.count = 1
    /\ updCall.field = "probing_depth_distal"
    /\ FieldSum(chartData, MarginFields) = 48
    /\ FieldSum(chartData, DepthFields) = 16 * 2 * 7 + 9
    /\ FieldSum(InitChart(initialValues), DepthFields) = 16 * 2 * 7
    /\ summaryStats.meanMargin = <<"0", ".", "3">>
    /\ summaryStats.meanDepth = <<"1", ".", "2">>

-----------------------------------------------------------------------------
(* Properties of an update for a tooth without an entry *)

\* C23: an update for a tooth that has no entry in the chart creates the
\* entry with two default measurements and applies the edit to it: the new
\* chart holds the new value in the targeted field and the defaults in every
\* other field of both surfaces of the tooth, every other entry is as it was,
\* and the call returns a chart
C23_UpdateCreatesEntry ==
    [][updCall'.count # updCall.count
         /\ updCall'.tooth \notin DOMAIN heap[curChart] =>
          LET u == updCall'
              before == Deref(heap, curChart)
              after == Deref(heap', curChart')
              other == CHOOSE surface \in {"buccal", "palatal"} :
                           surface # u.surface
          IN  /\ DOMAIN after = DOMAIN before \cup {u.tooth}
              /\ \A tooth \in DOMAIN before : after[tooth] = before[tooth]
              /\ DOMAIN after[u.tooth] = {"buccal", "palatal"}
              /\ after[u.tooth][other] = createDefaultMeasurement
              /\ DOMAIN after[u.tooth][u.surface]
                     = DOMAIN createDefaultMeasurement
              /\ after[u.tooth][u.surface][u.field] = u.value
              /\ \A field \in DOMAIN createDefaultMeasurement \ {u.field} :
                     after[u.tooth][u.surface][field] =
                         createDefaultMeasurement[field]
      ]_vars

\* the first update names the implant flag of the buccal surface of tooth 99,
\* which the built chart has no entry for: the chart it returns has the
\* entry, with the flag set and the defaults around it
C23_Witness ==
    /\ updCall = [count |-> 1, tooth |-> "99", surface |-> "buccal",
                  field |-> "implant", value |-> Bool(TRUE)]
    /\ prevChart = InitChartRef
    /\ "99" \notin DOMAIN heap[prevChart]
    /\ createDefaultMeasurement.implant = Bool(FALSE)
    /\ Deref(heap, curChart)["99"] =
           [buccal |-> [createDefaultMeasurement EXCEPT
                            !.implant = Bool(TRUE)],
            palatal |-> createDefaultMeasurement]
    /\ DOMAIN Deref(heap, curChart) = Range(ALL_TEETH) \cup {"99"}

-----------------------------------------------------------------------------
(* Properties of the length of the notes *)

\* C24: in every state of a mounted chart, whatever the initial values and
\* the edits, the notes of every tooth surface hold at most 100 characters
C24_NotesCapped ==
    lifecycle = "mounted" =>
        \A tooth \in DOMAIN chartData, surface \in {"buccal", "palatal"} :
            LET notes == chartData[tooth][surface]["notes"]
            IN  notes.t = "string" => Len(notes.v) <= NOTES_MAX_LENGTH

-----------------------------------------------------------------------------
(* Properties of a chart nobody edits *)

\* C25: the chart is changed by user edits only: from the mount on, whatever
\* the initial values, as long as no keystroke or toggle has occurred, no
\* update has been committed and the committed chart is the chart built at
\* creation
C25_OnlyEditsMutate ==
    lifecycle = "mounted" /\ events = 0 =>
        /\ chartData = InitChart(initialValues)
        /\ chartRef = 0

\* the part of C25 that is about charts built in range: as long as no
\* keystroke or toggle has occurred such a chart is the chart built at
\* creation, whatever timers expire
C25_InRangeStays ==
    lifecycle = "mounted" /\ events = 0 /\ OutOfRangeAtBuild = {} =>
        /\ chartData = InitChart(initialValues)
        /\ chartRef = 0

-----------------------------------------------------------------------------
(* Properties of a readOnly chart *)

\* C26: a chart mounted with readOnly = true never changes, whatever the
\* initial values, the key events and the timer expirations: the committed
\* chart is the chart built at creation, and onSubmit is never invoked
C26_ReadOnlyFrozen ==
    lifecycle = "mounted" /\ readOnly =>
        /\ chartData = InitChart(initialValues)
        /\ chartRef = 0
        /\ onSubmitCalls = <<>>

\* the parts of C26 that do not meet an out-of-range initial value: a
\* readOnly chart never invokes onSubmit and counts no user event, and one
\* built in range is never changed
C26_ReadOnlyInRange ==
    readOnly =>
        /\ onSubmitCalls = <<>>
        /\ events = 0
        /\ lifecycle = "mounted" /\ OutOfRangeAtBuild = {} =>
               chartData = InitChart(initialValues) /\ chartRef = 0

-----------------------------------------------------------------------------
(* Properties of the text a number cell shows *)

\* C27: the text a number cell shows converges to the stored value: once
\* the cell's window has run out with no further keystroke (no effect and no
\* timer of the cell is pending), the text the cell holds is the decimal
\* rendering of the value the chart stores for its field
C27_DisplayConverges ==
    \A c \in NumberCells :
        Idle /\ deps.ran /\ TimersOf(c) = {} =>
            localValue[c] = JsToString(ValueProp(chartData, c))

-----------------------------------------------------------------------------
(* Properties of the navigation map as a whole *)

\* C28: the moves of the navigation map are mutually inverse on every cell:
\* prev of next and next of prev of a cell are the cell, up of down and down
\* of up of a cell are the cell, and every neighbour the map names is a key
\* of the map. Stated of the cell that has the focus, which is any cell of
\* the map
C28_MovesInverse ==
    focus \in DOMAIN NAVIGATION_MAP =>
        LET c == focus
            neighbours == NAVIGATION_MAP[c]
        IN  /\ {neighbours.next, neighbours.prev, neighbours.up,
                neighbours.down} \subseteq DOMAIN NAVIGATION_MAP
            /\ NAVIGATION_MAP[neighbours.next].prev = c
            /\ NAVIGATION_MAP[neighbours.prev].next = c
            /\ NAVIGATION_MAP[neighbours.down].up = c
            /\ NAVIGATION_MAP[neighbours.up].down = c
            /\ navCall.called /\ navCall.target.found =>
                   navCall.target.key \in DOMAIN NAVIGATION_MAP

\* the focus was moved up from the first field of the last tooth, to its
\* last field: down from there is the cell the move started from, and prev
\* of the first tooth's cell leads to the last tooth
C28_Witness ==
    /\ navCall.called
    /\ navCall.from = "41-palatal-mobility"
    /\ navCall.direction = "up"
    /\ focus = "41-palatal-notes"
    /\ NAVIGATION_MAP[focus].down = navCall.from
    /\ NAVIGATION_MAP[focus].next = "18-palatal-notes"
    /\ NAVIGATION_MAP["18-palatal-notes"].prev = focus
    /\ Cardinality(DOMAIN NAVIGATION_MAP) = 1024

-----------------------------------------------------------------------------
(* Properties of the change notifications at rest *)

\* the time left to each pending timer
Remaining == [i \in 1..Len(timers) |-> timers[i].remaining]

\* the component, with the effects of every render run and every timer
\* that is set run out or cleared: pending effects are flushed, time passes,
\* due timers fire; the user and the unmount are under no obligation. Each
\* subscript names state that every step of its action changes
SpecFair ==
    /\ Spec
    /\ WF_<<dirty, deps.ran, chartRef, localValue>>(FlushEffects)
    /\ WF_Remaining(Tick)
    /\ WF_Remaining(CellTimerFire)
    /\ WF_Remaining(ChartTimerFire)

\* onChange was invoked last with the committed chart
NotifiedOfCommitted ==
    /\ onChangeCalls # <<>>
    /\ onChangeCalls[Len(onChangeCalls)] = chartRef
    /\ onChangeArg = chartData

\* C29: change notifications are eventually delivered and never stale at
\* rest: once the edits have stopped, if the chart stays mounted, onChange is
\* eventually invoked with the latest committed chart and that remains the
\* last invocation; and no invocation carries a chart older than the chart
\* of an earlier invocation
C29_EventuallyNotified ==
    /\ <>[](lifecycle = "mounted" => NotifiedOfCommitted)
    /\ [][onChangeCalls' # onChangeCalls =>
             /\ Len(onChangeCalls') = Len(onChangeCalls) + 1
             /\ \A i \in 1..Len(onChangeCalls) :
                    onChangeCalls[i] < onChangeCalls'[Len(onChangeCalls')]
         ]_vars

\* the chart built with a probing depth of 20 was committed twice, by the
\* clamp and by an edit, and stayed mounted; everything is at rest, and the
\* last of the invocations of onChange, which came in the order of the
\* commits, passed the chart of the second commit
C29_Witness ==
    /\ Idle /\ timers = <<>>
    /\ events = 1
    /\ chartRef = 2
    /\ onChangeCalls = <<0, 1, 2>>
    /\ onChangeArg = chartData
    /\ chartData # InitChart(initialValues)

=============================================================================
